---- MODULE Spec2Model ----
(***************************************************************************)
(* A model of the ldpc crate: linear codes over GF(2), CSS codes and their *)
(* logical operators, the flip decoder, the belief propagation decoder and *)
(* the CSS decoder built from two classical decoders.                      *)
(*                                                                         *)
(* A sparse binary vector is a record [len, ones] where ones is the set of *)
(* its non trivial positions (0-based).  A sparse binary matrix is a       *)
(* record [number_of_columns, rows] where rows is the sequence of the sets *)
(* of non trivial positions of its rows.                                   *)
(***************************************************************************)
EXTENDS Integers, Sequences, FiniteSets, TLC

VARIABLES
    code,        \* the LinearCode of the classical specifications
    x_code,      \* first argument of CssCode::try_new
    z_code,      \* second argument of CssCode::try_new
    pc,          \* position inside CssCode::try_new
    result,      \* value returned by CssCode::try_new
    lg,          \* the Logicals struct of from_linear_codes
    message,     \* argument of FlipDecoder::decode
    output,      \* local variable output of FlipDecoder::decode
    syndrome,    \* local variable syndrome of FlipDecoder::decode
    fpc,         \* position inside FlipDecoder::decode
    probability, \* the probability given to BpDecoder::new
    decoder,     \* the BpDecoder (self of BpDecoder::correction_for)
    state,       \* the BpState of BpDecoder::correction_for
    correction,  \* value returned by BpDecoder::correction_for
    bpc,         \* position inside BpDecoder::correction_for
    css_decoder,     \* the CssDecoder: a Css pair of BpDecoder
    css_syndrome,    \* argument of CssDecoder::correction_for
    css_correction,  \* value returned by CssDecoder::correction_for
    dpc,             \* position inside CssDecoder::correction_for
    receiver,    \* the object a method is called on (self)
    argument,    \* argument of the method called on the receiver
    returned,    \* value returned by the method
    qpc,         \* position of the caller of the method
    calls        \* the decoding calls in progress on one decoder, each with
                 \* its input, its local variables and its returned value

cssVars == <<x_code, z_code, result, lg>>

flipVars == <<message, output, syndrome, fpc>>

bpVars == <<probability, decoder, state, correction, bpc>>

decVars == <<css_decoder, css_syndrome, css_correction, dpc>>

queryVars == <<receiver, argument, returned, qpc>>

vars == <<code, pc, cssVars, flipVars, bpVars, decVars, queryVars, calls>>

\* The variables no action of the named specification changes.
notLinear == <<cssVars, flipVars, bpVars, decVars, queryVars, calls>>

notCss == <<code, flipVars, bpVars, decVars, queryVars, calls>>

notFlip == <<code, pc, cssVars, bpVars, decVars, queryVars, calls>>

notBp == <<code, pc, cssVars, flipVars, decVars, queryVars, calls>>

notDec == <<code, pc, cssVars, flipVars, bpVars, queryVars, calls>>

notQuery == <<code, pc, cssVars, flipVars, bpVars, decVars, calls>>

notShared == <<code, pc, cssVars, flipVars, bpVars, decVars, argument, returned>>

-----------------------------------------------------------------------------
(* Bounds of the model.                                                    *)

\* Largest block size and number of rows of the matrices given to the
\* LinearCode constructors in the classical specifications.
MaxLen == 3
MaxRows == 2

\* Largest block size and number of rows of the matrices the two codes of a
\* CSS code are built from.
CssLen == 3
CssRows == 1

\* Largest number of bits, of checks and of non trivial elements of the
\* parity check matrices given to BpDecoder::new, and the largest iteration
\* cap.
BpLen == 2
BpRows == 2
MaxEdges == 4
MaxIterations == 2

\* Largest number of stabilizer generators, of both kinds together, of the
\* CSS codes a CssDecoder is built for.
DecChecks == 2

\* Largest number of qubits and of stabilizer generators, of both kinds
\* together, of the CSS codes given to the erasure decoder, besides the
\* codes of the tests.
ErasureLen == 2
ErasureChecks == 2

\* Largest block size and number of rows of the matrices the queried linear
\* codes are built from, besides the Hamming and the repetition code.
QueryLen == 3
QueryRows == 1

\* Largest number of qubits and of stabilizer generators, of both kinds
\* together, of the CSS codes queried besides the codes of the tests.
StabLen == 2
StabChecks == 2

\* Largest block size and number of checks of the linear codes given to the
\* hypergraph product, besides the repetition code.
ProductLen == 2
ProductRows == 1

\* Number of decoding calls that share one decoder.
Calls == 2

\* Bounds of the codes with more checks than bits given to the flip decoder.
TallLen == 2
TallChecks == 3

\* Largest block size, number of checks and degree given to the builder of
\* random regular codes.
RegularLen == 3
RegularChecks == 3
RegularDegree == 2

-----------------------------------------------------------------------------
(* GF(2) primitives of the sparse_bin_mat crate.                           *)

Min(S) == CHOOSE x \in S : \A y \in S : x <= y

\* A panic of the callee, in place of the value it would have returned.
Panic == [panic |-> TRUE]

IsPanic(x) == "panic" \in DOMAIN x

\* The sum of two sparse binary vectors given by their positions.
SymDiff(a, b) == (a \ b) \cup (b \ a)

\* The sum of a set of distinct position sets.
XorAll(B) == {c \in UNION B : Cardinality({b \in B : c \in b}) % 2 = 1}

\* SparseBinVec::dot_with: the GF(2) dot product, 0 or 1.
Dot(a, b) == Cardinality(a \cap b) % 2

SparseBinVec(len, ones) == [len |-> len, ones |-> ones]

SparseBinMat(ncols, rows) == [number_of_columns |-> ncols, rows |-> rows]

number_of_rows(M) == Len(M.rows)

\* SparseBinMat::identity
Identity(n) == SparseBinMat(n, [i \in 1..n |-> {i - 1}])

\* SparseBinMat::transposed
Transposed(M) ==
    SparseBinMat(number_of_rows(M),
        [b \in 1..M.number_of_columns |->
            {c - 1 : c \in {c \in 1..number_of_rows(M) : (b - 1) \in M.rows[c]}}])

\* The product of two matrices, A * B.  The crate panics when the number of
\* columns of A differs from the number of rows of B.
MatMul(A, B) ==
    IF A.number_of_columns # number_of_rows(B)
    THEN Panic
    ELSE LET Bt == Transposed(B)
         IN  SparseBinMat(B.number_of_columns,
                 [i \in 1..number_of_rows(A) |->
                     {j - 1 : j \in {j \in 1..number_of_rows(Bt) :
                                        Dot(A.rows[i], Bt.rows[j]) = 1}}])

\* The product of a matrix with a vector, M * v.
MatVec(M, v) ==
    IF M.number_of_columns # v.len
    THEN Panic
    ELSE SparseBinVec(number_of_rows(M),
             {c - 1 : c \in {c \in 1..number_of_rows(M) : Dot(M.rows[c], v.ones) = 1}})

\* SparseBinMat::is_zero
IsZeroMat(M) == \A i \in 1..number_of_rows(M) : M.rows[i] = {}

\* SparseBinVec::is_zero
IsZeroVec(v) == v.ones = {}

\* One step of Gauss-Jordan elimination: basis is a set of non zero rows in
\* reduced form (the smallest position of each row, its pivot, belongs to no
\* other row); the row is reduced by the basis and added to it when it is
\* independent of it.
InsertRow(basis, row) ==
    LET reduced == SymDiff(row, XorAll({b \in basis : Min(b) \in row}))
    IN  IF reduced = {}
        THEN basis
        ELSE {IF Min(reduced) \in b THEN SymDiff(b, reduced) ELSE b : b \in basis}
                 \cup {reduced}

RECURSIVE EchelonOf(_, _)
EchelonOf(rows, k) ==
    IF k = 0 THEN {} ELSE InsertRow(EchelonOf(rows, k - 1), rows[k])

\* The reduced row echelon form of a matrix, as the set of its non zero rows.
EchelonForm(M) == EchelonOf(M.rows, number_of_rows(M))

\* SparseBinMat::rank
Rank(M) == Cardinality(EchelonForm(M))

RECURSIVE SortedSeq(_)
SortedSeq(S) == IF S = {} THEN <<>> ELSE <<Min(S)>> \o SortedSeq(S \ {Min(S)})

\* SparseBinMat::nullspace: a basis of the vectors orthogonal to every row,
\* one vector for each column that is the pivot of no row.
Nullspace(M) ==
    LET basis == EchelonForm(M)
        pivots == {Min(b) : b \in basis}
        free == SortedSeq((0..(M.number_of_columns - 1)) \ pivots)
    IN  SparseBinMat(M.number_of_columns,
            [i \in 1..Len(free) |->
                {free[i]} \cup {Min(b) : b \in {b \in basis : free[i] \in b}}])

-----------------------------------------------------------------------------
(* LinearCode (linear_code/mod.rs).                                        *)

from_parity_check_matrix(parity_check_matrix) ==
    LET generator_matrix == Nullspace(parity_check_matrix)
        bit_adjacencies == Transposed(parity_check_matrix)
    IN  [parity_check_matrix |-> parity_check_matrix,
         generator_matrix |-> generator_matrix,
         bit_adjacencies |-> bit_adjacencies]

\* from_generator_matrix keeping the given matrix as the parity check matrix.
from_generator_matrix_no_nullspace(generator_matrix) ==
    [parity_check_matrix |-> generator_matrix,
     generator_matrix |-> generator_matrix,
     bit_adjacencies |-> Transposed(generator_matrix)]

from_generator_matrix(generator_matrix) ==
    LET parity_check_matrix == Nullspace(generator_matrix)
        bit_adjacencies == Transposed(parity_check_matrix)
    IN  [parity_check_matrix |-> parity_check_matrix,
         generator_matrix |-> generator_matrix,
         bit_adjacencies |-> bit_adjacencies]

\* LinearCode::empty
empty == from_parity_check_matrix(SparseBinMat(0, <<>>))

\* LinearCode::hamming_code
hamming_code ==
    from_parity_check_matrix(SparseBinMat(7, <<{3, 4, 5, 6}, {1, 2, 5, 6}, {0, 2, 4, 6}>>))

\* LinearCode::repetition_code
repetition_code(block_size) ==
    from_generator_matrix(SparseBinMat(block_size, <<0..(block_size - 1)>>))

block_size(c) == c.parity_check_matrix.number_of_columns

number_of_checks(c) == number_of_rows(c.parity_check_matrix)

\* LinearCode::syndrome_of without the test of the length: the positions out
\* of the block are ignored.
syndrome_of_unchecked(c, msg) ==
    MatVec(c.parity_check_matrix,
           SparseBinVec(block_size(c), msg.ones \cap (0..(block_size(c) - 1))))

\* LinearCode::syndrome_of
syndrome_of(c, msg) ==
    IF msg.len # block_size(c)
    THEN Panic
    ELSE MatVec(c.parity_check_matrix, msg)

\* LinearCode::has_codeword
has_codeword(c, operator) == IsZeroVec(syndrome_of(c, operator))

-----------------------------------------------------------------------------
(* The inputs of the model: every matrix within the bounds.                *)

RowSeqs(n, m) == UNION {[1..k -> SUBSET (0..(n - 1))] : k \in 0..m}

Matrices(maxlen, maxrows) ==
    UNION {{SparseBinMat(n, rows) : rows \in RowSeqs(n, maxrows)} : n \in 0..maxlen}

-----------------------------------------------------------------------------
(* CssCode::try_new (codes/css/mod.rs) and the logical operators           *)
(* (codes/css/logicals.rs).                                                *)

NoResult == [tag |-> "None"]

NoLogicals == [tag |-> "None"]

DifferentXandZLength(x_len, z_len) ==
    [tag |-> "Err", error |-> "DifferentXandZLength", x_len |-> x_len, z_len |-> z_len]

NonOrthogonalCodes == [tag |-> "Err", error |-> "NonOrthogonalCodes"]

Proceed == [tag |-> "Proceed"]

\* The orthogonality product is computed first, whatever the lengths.
try_new_checks_product_first(xc, zc) ==
    LET product == MatMul(xc.parity_check_matrix, Transposed(zc.parity_check_matrix))
    IN  IF IsPanic(product)
        THEN [tag |-> "Panic"]
        ELSE IF ~IsZeroMat(product)
        THEN NonOrthogonalCodes
        ELSE IF block_size(xc) # block_size(zc)
        THEN DifferentXandZLength(block_size(xc), block_size(zc))
        ELSE Proceed

\* The two tests at the head of try_new: the result is an error, a panic of
\* the matrix product, or Proceed when the logicals are to be computed.
try_new_checks(xc, zc) ==
    IF block_size(xc) # block_size(zc)
    THEN DifferentXandZLength(block_size(xc), block_size(zc))
    ELSE LET product == MatMul(xc.parity_check_matrix, Transposed(zc.parity_check_matrix))
         IN  IF IsPanic(product)
             THEN [tag |-> "Panic"]
             ELSE IF ~IsZeroMat(product)
             THEN NonOrthogonalCodes
             ELSE Proceed

\* Logicals::to_generator_vec
to_generator_vec(c) == c.generator_matrix.rows

\* Logicals::new seeding each pool with the generators of its own code.
Logicals_new_not_crossed(xc, zc) ==
    [tag |-> "Logicals",
     raw_x_generators |-> xc.generator_matrix.rows,
     raw_z_generators |-> zc.generator_matrix.rows,
     x_logicals |-> <<>>,
     z_logicals |-> <<>>,
     length |-> block_size(xc)]

\* Logicals::new
Logicals_new(xc, zc) ==
    [tag |-> "Logicals",
     raw_x_generators |-> to_generator_vec(zc),
     raw_z_generators |-> to_generator_vec(xc),
     x_logicals |-> <<>>,
     z_logicals |-> <<>>,
     length |-> block_size(xc)]

\* Logicals::anticommute
anticommute(x_generator, z_generator) == Dot(x_generator, z_generator) = 1

\* Vec::pop: the vector without its last element.
Popped(s) == SubSeq(s, 1, Len(s) - 1)

\* Vec::swap_remove: the last element takes the place of the removed one.
swap_remove(s, position) ==
    IF position = Len(s)
    THEN Popped(s)
    ELSE [Popped(s) EXCEPT ![position] = s[Len(s)]]

\* Iterator::position on the pool of Z candidates, 0 when there is none.
anticommuting_position(raw_z_generators, x_generator) ==
    LET found == {i \in 1..Len(raw_z_generators) :
                     anticommute(x_generator, raw_z_generators[i])}
    IN  IF found = {} THEN 0 ELSE Min(found)

\* Logicals::update_remaining_generators without the row reduction.
update_remaining_generators_skipped(l, x_generator, z_generator) == l

\* Logicals::update_remaining_generators
update_remaining_generators(l, x_generator, z_generator) ==
    [l EXCEPT
        !.raw_z_generators =
            [i \in 1..Len(@) |->
                IF anticommute(x_generator, @[i]) THEN SymDiff(z_generator, @[i]) ELSE @[i]],
        !.raw_x_generators =
            [i \in 1..Len(@) |->
                IF anticommute(@[i], z_generator) THEN SymDiff(x_generator, @[i]) ELSE @[i]]]

\* Logicals::push_logicals keeping the X generator only.
push_logicals_x_only(l, x_generator, z_generator) ==
    [l EXCEPT !.x_logicals = Append(@, x_generator)]

\* Logicals::push_logicals
push_logicals(l, x_generator, z_generator) ==
    [l EXCEPT !.x_logicals = Append(@, x_generator),
              !.z_logicals = Append(@, z_generator)]

\* One iteration of the loop of Logicals::compute, the pool of X candidates
\* being non empty.
compute_iteration(l) ==
    LET x_generator == l.raw_x_generators[Len(l.raw_x_generators)]
        popped == [l EXCEPT !.raw_x_generators = Popped(@)]
        position == anticommuting_position(popped.raw_z_generators, x_generator)
    IN  IF position = 0
        THEN popped
        ELSE LET z_generator == popped.raw_z_generators[position]
                 removed == [popped EXCEPT
                                !.raw_z_generators = swap_remove(@, position)]
             IN  push_logicals(
                     update_remaining_generators(removed, x_generator, z_generator),
                     x_generator, z_generator)

\* The value Logicals::compute returns once the pool of X candidates is empty.
compute_result(l) ==
    [x |-> SparseBinMat(l.length, l.x_logicals),
     z |-> SparseBinMat(l.length, l.z_logicals)]

CssCodeOf(xc, zc, logicals) ==
    [stabilizers |-> [x |-> xc.parity_check_matrix, z |-> zc.parity_check_matrix],
     logicals |-> logicals]

-----------------------------------------------------------------------------
(* FlipDecoder (classical/decoders/flip.rs).                               *)

NoVec == [tag |-> "None"]

\* No call of FlipDecoder::decode is in progress.
FlipIdle ==
    /\ message = NoVec
    /\ output = NoVec
    /\ syndrome = NoVec
    /\ fpc = "idle"

\* No call of BpDecoder::correction_for is in progress.
BpIdle ==
    /\ probability = NoVec
    /\ decoder = NoVec
    /\ state = NoVec
    /\ correction = NoVec
    /\ bpc = "idle"

\* No call of CssDecoder::correction_for is in progress.
DecIdle ==
    /\ css_decoder = NoVec
    /\ css_syndrome = NoVec
    /\ css_correction = NoVec
    /\ dpc = "idle"

\* No method call of the query specifications is in progress.
QueryIdle ==
    /\ receiver = NoVec
    /\ argument = NoVec
    /\ returned = NoVec
    /\ qpc = "idle"
    /\ calls = <<>>

\* The sum of two vectors taken as the union of their positions.
VecAdd_or(a, b) ==
    IF a.len # b.len THEN Panic ELSE SparseBinVec(a.len, a.ones \cup b.ones)

\* The sum of two vectors; the crate panics when the lengths differ.
VecAdd(a, b) ==
    IF a.len # b.len THEN Panic ELSE SparseBinVec(a.len, SymDiff(a.ones, b.ones))

\* The closure of find_flippable accepting half of the checks unsatisfied.
is_flippable_at_half(checks, s) ==
    LET number_unsatisfied == Cardinality({check \in checks : check \in s.ones})
    IN  number_unsatisfied >= Cardinality(checks) \div 2

\* The closure of find_flippable: the number of unsatisfied checks among the
\* checks adjacent to a bit, against half the degree of the bit.
is_flippable(checks, s) ==
    LET number_unsatisfied == Cardinality({check \in checks : check \in s.ones})
    IN  number_unsatisfied > Cardinality(checks) \div 2

\* FlipDecoder::find_flippable rounding half the degree up.
find_flippable_round_up(c, s) ==
    LET rows == c.bit_adjacencies.rows
        found == {i \in 1..Len(rows) :
                     Cardinality({check \in rows[i] : check \in s.ones})
                         > (Cardinality(rows[i]) + 1) \div 2}
    IN  IF found = {} THEN -1 ELSE Min(found) - 1

\* FlipDecoder::find_flippable accepting a bit with exactly half of its
\* checks unsatisfied.
find_flippable_or_equal(c, s) ==
    LET rows == c.bit_adjacencies.rows
        found == {i \in 1..Len(rows) :
                     Cardinality({check \in rows[i] : check \in s.ones})
                         >= Cardinality(rows[i]) \div 2}
    IN  IF found = {} THEN -1 ELSE Min(found) - 1

\* FlipDecoder::find_flippable returning the last flippable bit.
find_flippable_last(c, s) ==
    LET rows == c.bit_adjacencies.rows
        found == {i \in 1..Len(rows) : is_flippable(rows[i], s)}
    IN  IF found = {} THEN -1 ELSE (CHOOSE i \in found : \A j \in found : j <= i) - 1

\* FlipDecoder::find_flippable: the first bit, in the order of the rows of
\* bit_adjacencies, that is flippable; -1 stands for None.
find_flippable(c, s) ==
    LET rows == c.bit_adjacencies.rows
        found == {i \in 1..Len(rows) : is_flippable(rows[i], s)}
    IN  IF found = {} THEN -1 ELSE Min(found) - 1

-----------------------------------------------------------------------------
(* Arithmetic of the belief propagation decoder.                           *)
(*                                                                         *)
(* The decoder computes with f64 log likelihood ratios.  The model holds   *)
(* the value L as the exact likelihood ratio e^L = n / d, a pair <<n, d>> *)
(* of naturals in lowest terms: <<1, 0>> is +inf, <<0, 1>> is -inf,        *)
(* <<1, 1>> is 0.0 and <<0, 0>> is NaN.  A sum of log likelihood ratios is *)
(* a product of ratios, and NaN comes out of it exactly where f64 gives    *)
(* NaN (inf - inf).  The values of tanh are signed rationals <<n, d>> with *)
(* d > 0, <<0, 0>> for NaN and <<1, 0>>, <<-1, 0>> for the infinities a    *)
(* division by zero gives.  Rounding of f64 is not modelled.               *)

RECURSIVE Gcd(_, _)
Gcd(a, b) == IF b = 0 THEN a ELSE Gcd(b, a % b)

Abs(a) == IF a < 0 THEN 0 - a ELSE a

NaN == <<0, 0>>

\* The f64 value 0.0 as a likelihood ratio.
Zero == <<1, 1>>

\* The ratio n / d in lowest terms.
Reduced(n, d) ==
    IF n = 0 /\ d = 0 THEN NaN
    ELSE LET g == Gcd(n, d) IN <<n \div g, d \div g>>

(* The exact values outgrow 32-bit integers in the second iteration on the *)
(* Hamming code.  A value whose parts do not fit in 32 bits is held wide,  *)
(* as <<n, d, sign>>: n and d are naturals as sequences of                 *)
(* limbs below LimbBase, the lowest first and the highest not zero, <<>>   *)
(* for 0, not in lowest terms, and sign is 1 or -1, the sign of a value of *)
(* tanh.  An operation on values that fit gives the same result as before. *)
LimbBase == 1000

\* The product of the naturals p and q fits in a signed 32-bit integer.
Fits(p, q) == p = 0 \/ q <= 2147483647 \div p

\* The sum of the naturals p and q fits in a signed 32-bit integer.
FitsSum(p, q) == p <= 2147483647 - q

RECURSIVE BigOf(_)
BigOf(n) == IF n = 0 THEN <<>> ELSE <<n % LimbBase>> \o BigOf(n \div LimbBase)

RECURSIVE BigTrim(_)
BigTrim(s) ==
    IF s = <<>> THEN s
    ELSE IF s[Len(s)] = 0 THEN BigTrim(SubSeq(s, 1, Len(s) - 1)) ELSE s

BigLimb(s, i) == IF i <= Len(s) THEN s[i] ELSE 0

\* The limbs of the sequence of sums s from the limb i on, with the carry c.
RECURSIVE BigCarry(_, _, _)
BigCarry(s, i, c) ==
    IF i > Len(s) THEN BigOf(c)
    ELSE <<(s[i] + c) % LimbBase>> \o BigCarry(s, i + 1, (s[i] + c) \div LimbBase)

BigAdd(a, b) ==
    BigCarry([i \in 1..(IF Len(a) > Len(b) THEN Len(a) ELSE Len(b)) |->
                  BigLimb(a, i) + BigLimb(b, i)], 1, 0)

\* a < b below the limb i, compared from the highest limb down.
RECURSIVE BigLessFrom(_, _, _)
BigLessFrom(a, b, i) ==
    IF i = 0 THEN FALSE
    ELSE IF a[i] # b[i] THEN a[i] < b[i]
    ELSE BigLessFrom(a, b, i - 1)

BigLess(a, b) ==
    IF Len(a) # Len(b) THEN Len(a) < Len(b) ELSE BigLessFrom(a, b, Len(a))

\* The limbs of a - b from the limb i on, with the borrow c, for b <= a.
RECURSIVE BigBorrow(_, _, _, _)
BigBorrow(a, b, i, c) ==
    IF i > Len(a) THEN <<>>
    ELSE LET d == a[i] - BigLimb(b, i) - c
         IN  IF d < 0 THEN <<d + LimbBase>> \o BigBorrow(a, b, i + 1, 1)
             ELSE <<d>> \o BigBorrow(a, b, i + 1, 0)

\* a - b for b <= a.
BigSub(a, b) == BigTrim(BigBorrow(a, b, 1, 0))

\* The sum of the products a[i] * b[k - i + 1] for i from lo to hi.
RECURSIVE BigTerms(_, _, _, _, _)
BigTerms(a, b, k, lo, hi) ==
    IF lo > hi THEN 0 ELSE a[lo] * b[k - lo + 1] + BigTerms(a, b, k, lo + 1, hi)

BigMul(a, b) ==
    IF a = <<>> \/ b = <<>> THEN <<>>
    ELSE BigCarry([k \in 1..(Len(a) + Len(b) - 1) |->
             BigTerms(a, b, k, IF k > Len(b) THEN k - Len(b) + 1 ELSE 1,
                               IF k < Len(a) THEN k ELSE Len(a))], 1, 0)

\* The value a held wide.
Wide(a) ==
    IF Len(a) = 3 THEN a
    ELSE <<BigOf(Abs(a[1])), BigOf(a[2]), IF a[1] < 0 THEN 0 - 1 ELSE 1>>

\* a + b of two wide log likelihood ratios.
WideLlrAdd(a, b) ==
    LET nz == a[1] = <<>> \/ b[1] = <<>>
        dz == a[2] = <<>> \/ b[2] = <<>>
    IN  IF nz /\ dz THEN NaN
        ELSE IF nz THEN <<0, 1>>
        ELSE IF dz THEN <<1, 0>>
        ELSE <<BigMul(a[1], b[1]), BigMul(a[2], b[2]), 1>>

\* a + b of two log likelihood ratios.
LlrAdd(a, b) ==
    IF Len(a) = 3 \/ Len(b) = 3 THEN WideLlrAdd(Wide(a), Wide(b))
    ELSE
    LET nz == a[1] = 0 \/ b[1] = 0
        dz == a[2] = 0 \/ b[2] = 0
    IN  IF nz /\ dz THEN NaN
        ELSE IF nz THEN <<0, 1>>
        ELSE IF dz THEN <<1, 0>>
        ELSE LET g1 == Gcd(a[1], b[2])
                 g2 == Gcd(b[1], a[2])
                 n1 == a[1] \div g1
                 n2 == b[1] \div g2
                 d1 == a[2] \div g2
                 d2 == b[2] \div g1
             IN  IF Fits(n1, n2) /\ Fits(d1, d2) THEN <<n1 * n2, d1 * d2>>
                 ELSE WideLlrAdd(Wide(a), Wide(b))

\* -1.0 * a
LlrNeg(a) == [a EXCEPT ![1] = a[2], ![2] = a[1]]

\* a - b
LlrSub(a, b) == LlrAdd(a, LlrNeg(b))

\* a < 0.0, which is false for NaN
LlrIsNegative(a) == IF Len(a) = 3 THEN BigLess(a[1], a[2]) ELSE a[1] < a[2]

\* a <= 0.0, which is false for NaN
LlrIsNonPositive(a) ==
    IF Len(a) = 3 THEN ~BigLess(a[2], a[1]) ELSE a # NaN /\ a[1] <= a[2]

\* The signed rational n / d, d > 0, in lowest terms.
RatReduced(n, d) ==
    LET g == Gcd(Abs(n), d) IN  IF n < 0 THEN <<0 - (Abs(n) \div g), d \div g>> ELSE <<n \div g, d \div g>>

\* (a / 2.0).tanh() of the wide log likelihood ratio a.
WideHalfTanh(a) ==
    IF BigLess(a[1], a[2]) THEN <<BigSub(a[2], a[1]), BigAdd(a[1], a[2]), 0 - 1>>
    ELSE <<BigSub(a[1], a[2]), BigAdd(a[1], a[2]), 1>>

\* (a / 2.0).tanh() of the log likelihood ratio a: (e^a - 1) / (e^a + 1).
half_tanh(a) ==
    IF Len(a) = 3 THEN WideHalfTanh(a)
    ELSE IF a = NaN THEN NaN
    ELSE IF FitsSum(a[1], a[2]) THEN RatReduced(a[1] - a[2], a[1] + a[2])
    ELSE WideHalfTanh(Wide(a))

\* s * t of two wide values of tanh.
WideRatMul(s, t) ==
    IF s[2] = <<>> \/ t[2] = <<>> THEN NaN
    ELSE <<BigMul(s[1], t[1]), BigMul(s[2], t[2]), s[3] * t[3]>>

\* s * t of two values of tanh.
RatMul(s, t) ==
    IF Len(s) = 3 \/ Len(t) = 3 THEN WideRatMul(Wide(s), Wide(t))
    ELSE IF s[2] = 0 \/ t[2] = 0 THEN NaN
    ELSE LET g1 == Gcd(Abs(s[1]), t[2])
             g2 == Gcd(Abs(t[1]), s[2])
             n1 == s[1] \div g1
             n2 == t[1] \div g2
             d1 == s[2] \div g2
             d2 == t[2] \div g1
         IN  IF Fits(Abs(n1), Abs(n2)) /\ Fits(d1, d2) THEN <<n1 * n2, d1 * d2>>
             ELSE WideRatMul(Wide(s), Wide(t))

\* s / t of two wide values of tanh.
WideRatDiv(s, t) ==
    IF s[2] = <<>> \/ t[2] = <<>> THEN NaN
    ELSE IF t[1] = <<>> THEN
        (IF s[1] = <<>> THEN NaN ELSE IF s[3] < 0 THEN <<0 - 1, 0>> ELSE <<1, 0>>)
    ELSE WideRatMul(s, <<t[2], t[1], t[3]>>)

\* s / t of two values of tanh; 0.0 / 0.0 is NaN and x / 0.0 is an infinity.
RatDiv(s, t) ==
    IF Len(s) = 3 \/ Len(t) = 3 THEN WideRatDiv(Wide(s), Wide(t))
    ELSE IF s[2] = 0 \/ t[2] = 0 THEN NaN
    ELSE IF t[1] = 0 THEN (IF s[1] = 0 THEN NaN ELSE IF s[1] < 0 THEN <<0 - 1, 0>> ELSE <<1, 0>>)
    ELSE IF t[1] < 0 THEN RatMul(<<0 - s[1], s[2]>>, <<t[2], 0 - t[1]>>)
    ELSE RatMul(s, <<t[2], t[1]>>)

\* 2.0 * inner.atanh() of a wide value of tanh.
WideTwoAtanh(inner) ==
    IF inner[2] = <<>> \/ BigLess(inner[2], inner[1]) THEN NaN
    ELSE IF inner[3] < 0
         THEN <<BigSub(inner[2], inner[1]), BigAdd(inner[2], inner[1]), 1>>
         ELSE <<BigAdd(inner[2], inner[1]), BigSub(inner[2], inner[1]), 1>>

\* 2.0 * inner.atanh() as a likelihood ratio: (1 + inner) / (1 - inner);
\* atanh is NaN outside of [-1, 1] and infinite at -1 and 1.
two_atanh(inner) ==
    IF Len(inner) = 3 THEN WideTwoAtanh(inner)
    ELSE IF inner[2] = 0 \/ Abs(inner[1]) > inner[2] THEN NaN
    ELSE IF FitsSum(inner[2], Abs(inner[1]))
         THEN Reduced(inner[2] + inner[1], inner[2] - inner[1])
    ELSE WideTwoAtanh(Wide(inner))

\* Iterator::product from acc over the values of tanh in the sequence.
RECURSIVE RatProduct(_, _)
RatProduct(acc, values) ==
    IF values = <<>> THEN acc ELSE RatProduct(RatMul(acc, Head(values)), Tail(values))

\* Iterator::sum from acc over the log likelihood ratios in the sequence.
RECURSIVE LlrSum(_, _)
LlrSum(acc, values) ==
    IF values = <<>> THEN acc ELSE LlrSum(LlrAdd(acc, Head(values)), Tail(values))

-----------------------------------------------------------------------------
(* BpDecoder (decoders/belief_propagation.rs).                             *)
(*                                                                         *)
(* The two CsMat<f64> of Messages are functions from the non trivial       *)
(* elements <<check, bit>> of the parity check matrix to their values.     *)

\* SparseBinMat::non_trivial_elements
non_trivial_elements(M) ==
    {<<check, bit>> \in (0..(number_of_rows(M) - 1)) \X (0..(M.number_of_columns - 1)) :
        bit \in M.rows[check + 1]}

\* BpDecoder::new with the likelihood ratio p / (1 - p).
BpDecoder_new_inverted(parity_mat, prob, num_iterations) ==
    [ parity_mat |-> parity_mat,
      transposed_mat |-> Transposed(parity_mat),
      likelyhoods |-> [bit \in 1..parity_mat.number_of_columns |->
                           Reduced(prob[1], prob[2] - prob[1])],
      num_iterations |-> num_iterations ]

\* A probability is a pair <<n, d>> for the value n / d.
BpDecoder_new(parity_mat, prob, num_iterations) ==
    [ parity_mat |-> parity_mat,
      transposed_mat |-> Transposed(parity_mat),
      likelyhoods |-> [bit \in 1..parity_mat.number_of_columns |->
                           Reduced(prob[2] - prob[1], prob[1])],
      num_iterations |-> num_iterations ]

initialize_bits(self) ==
    [e \in non_trivial_elements(self.parity_mat) |-> self.likelyhoods[e[2] + 1]]

initialize_checks(self) ==
    [e \in non_trivial_elements(self.parity_mat) |-> Zero]

initialize_from(self, syn) ==
    [ messages |-> [bits |-> initialize_bits(self), checks |-> initialize_checks(self)],
      syndrome |-> syn,
      likelyhoods |-> self.likelyhoods,
      num_iterations |-> 0 ]

\* The function f as the explicit table of its values, each computed once.
Tabulated(f) == f @@ f

\* The values of a row of messages.bits, in the order of the bits.
RowValues(bits, check) ==
    LET row == SortedSeq({e[2] : e \in {f \in DOMAIN bits : f[1] = check}})
    IN  [i \in 1..Len(row) |-> bits[<<check, row[i]>>]]

\* The values of a column of messages.checks, in the order of the checks.
ColumnValues(checks, bit) ==
    LET col == SortedSeq({e[1] : e \in {f \in DOMAIN checks : f[2] = bit}})
    IN  [i \in 1..Len(col) |-> checks[<<col[i], bit>>]]

\* The vector products of update_checks: for each check, the product of the
\* tanh of the halves of the messages of its bits.
CheckProducts(bits) ==
    [check \in {e[1] : e \in DOMAIN bits} |->
        LET row == RowValues(bits, check)
        IN  RatProduct(<<1, 1>>, [i \in 1..Len(row) |-> half_tanh(row[i])])]

update_checks(messages, syn) ==
    LET products == CheckProducts(messages.bits)
    IN  [ bits |-> messages.bits,
          checks |-> Tabulated([e \in DOMAIN messages.checks |->
              LET inner == RatDiv(products[e[1]], half_tanh(messages.bits[e]))
                  value == two_atanh(inner)
              IN  IF e[1] \in syn.ones THEN LlrNeg(value) ELSE value ]) ]

\* The vector sums of update_bits: for each bit, the sum of the messages of
\* its checks.
CheckSums(checks) ==
    [bit \in {e[2] : e \in DOMAIN checks} |-> LlrSum(Zero, ColumnValues(checks, bit))]

update_bits(messages, likelyhoods) ==
    LET sums == CheckSums(messages.checks)
    IN  [ bits |-> Tabulated([e \in DOMAIN messages.bits |->
                       LlrAdd(LlrSub(sums[e[2]], messages.checks[e]), likelyhoods[e[2] + 1]) ]),
          checks |-> messages.checks ]

\* The likelyhoods of BpState::decode: the prior of each bit plus the
\* messages of its checks.
Posterior(st, bit) == LlrSum(st.likelyhoods[bit + 1], ColumnValues(st.messages.checks, bit))

\* BpState::decode with <= in place of <.
BpState_decode_or_equal(st) ==
    SparseBinVec(Len(st.likelyhoods),
        {bit \in 0..(Len(st.likelyhoods) - 1) : LlrIsNonPositive(Posterior(st, bit))})

BpState_decode(st) ==
    SparseBinVec(Len(st.likelyhoods),
        {bit \in 0..(Len(st.likelyhoods) - 1) : LlrIsNegative(Posterior(st, bit))})

\* BpState::update_once with the messages of the bits updated first.
update_once_bits_first(st) ==
    [ messages |-> update_checks(update_bits(st.messages, st.likelyhoods), st.syndrome),
      syndrome |-> st.syndrome,
      likelyhoods |-> st.likelyhoods,
      num_iterations |-> st.num_iterations + 1 ]

update_once(st) ==
    [ messages |-> update_bits(update_checks(st.messages, st.syndrome), st.likelyhoods),
      syndrome |-> st.syndrome,
      likelyhoods |-> st.likelyhoods,
      num_iterations |-> st.num_iterations + 1 ]

\* The closure of correction_for with the iteration cap missed by one.
stop_condition_one_late(self, st) ==
    \/ MatVec(self.parity_mat, BpState_decode(st)) = st.syndrome
    \/ st.num_iterations = self.num_iterations + 1

\* The closure of correction_for with the decision compared to the zero
\* syndrome instead of the syndrome of the state.
stop_condition_zero_syndrome(self, st) ==
    \/ IsZeroVec(MatVec(self.parity_mat, BpState_decode(st)))
    \/ st.num_iterations = self.num_iterations

\* The closure correction_for gives to update_until.
stop_condition(self, st) ==
    \/ MatVec(self.parity_mat, BpState_decode(st)) = st.syndrome
    \/ st.num_iterations = self.num_iterations

\* update_while(|state| !condition(state)), the loop of correction_for.
RECURSIVE update_until(_, _)
update_until(self, st) ==
    IF stop_condition(self, st) THEN st ELSE update_until(self, update_once(st))

\* BpDecoder::correction_for as a function of the decoder and the syndrome.
BpDecoder_correction_for(self, syn) ==
    BpState_decode(update_until(self, initialize_from(self, syn)))

\* LinearDecoder::decode of BpDecoder.
BpDecoder_decode(self, msg) ==
    VecAdd(msg, BpDecoder_correction_for(self, MatVec(self.parity_mat, msg)))

-----------------------------------------------------------------------------
(* Css pairs (css.rs), CssDecoder (decoders/css.rs) and the syndrome of a  *)
(* CSS code (codes/css/mod.rs).                                            *)
(*                                                                         *)
(* A PauliOperator is a record [len, paulis] where paulis maps the non     *)
(* trivial positions of the operator to "X", "Y" or "Z".                   *)

Css(x, z) == [x |-> x, z |-> z]

Css_pair(self, other) == Css(<<self.x, other.x>>, <<self.z, other.z>>)

swap_xz(self) == Css(self.z, self.x)

\* PauliOperator::x_part and PauliOperator::z_part, as sets of positions.
x_part(operator) == {i \in DOMAIN operator.paulis : operator.paulis[i] \in {"X", "Y"}}

z_part(operator) == {i \in DOMAIN operator.paulis : operator.paulis[i] \in {"Z", "Y"}}

\* impl From<&PauliOperator> for CssOperator
CssOperator_from(operator) ==
    Css(SparseBinVec(operator.len, x_part(operator)),
        SparseBinVec(operator.len, z_part(operator)))

\* PauliOperator::new: the positions with their non trivial Pauli.
PauliOperator(len, paulis) == [len |-> len, paulis |-> paulis]

\* The operator with the given X part and Z part, Y where they meet.
PauliFromParts(len, xs, zs) ==
    PauliOperator(len,
        [i \in xs \cup zs |->
            IF i \in xs /\ i \in zs THEN "Y" ELSE IF i \in xs THEN "X" ELSE "Z"])

\* PauliOperator::commutes_with: the operators differ, both being non
\* trivial, on an even number of positions.
commutes_with(a, b) ==
    Cardinality({i \in (DOMAIN a.paulis) \cap (DOMAIN b.paulis) :
                    a.paulis[i] # b.paulis[i]}) % 2 = 0

\* CssSyndrome::is_trivial
is_trivial(syn) == IsZeroVec(syn.x) /\ IsZeroVec(syn.z)

\* CssCode::syndrome_of with the parts of the operator not exchanged.
CssCode_syndrome_of_not_swapped(stabilizers, operator) ==
    LET paired == Css_pair(stabilizers, CssOperator_from(operator))
    IN  Css(MatVec(paired.x[1], paired.x[2]), MatVec(paired.z[1], paired.z[2]))

\* CssCode::syndrome_of, from the stabilizers of the code.
CssCode_syndrome_of(stabilizers, operator) ==
    LET paired == Css_pair(stabilizers, swap_xz(CssOperator_from(operator)))
    IN  Css(MatVec(paired.x[1], paired.x[2]), MatVec(paired.z[1], paired.z[2]))

\* CssCode::has_logical
has_logical(self, operator) ==
    is_trivial(CssCode_syndrome_of(self.stabilizers, operator))

\* CssCode::operator_from_vec
operator_from_vec(pauli, vector) ==
    PauliOperator(vector.len, [i \in vector.ones |-> pauli])

\* CssCode::logicals: the X generators, then the Z generators.
CssCode_logicals(self) ==
    [i \in 1..number_of_rows(self.logicals.x) |->
        operator_from_vec("X", SparseBinVec(self.logicals.x.number_of_columns,
                                            self.logicals.x.rows[i]))]
    \o [i \in 1..number_of_rows(self.logicals.z) |->
        operator_from_vec("Z", SparseBinVec(self.logicals.z.number_of_columns,
                                            self.logicals.z.rows[i]))]

\* CssCode::has_stabilizer without the test on the logical generators.
has_stabilizer_any_logical(self, operator) == has_logical(self, operator)

\* CssCode::has_stabilizer
has_stabilizer(self, operator) ==
    /\ has_logical(self, operator)
    /\ \A i \in 1..Len(CssCode_logicals(self)) :
           commutes_with(CssCode_logicals(self)[i], operator)

\* CssDecoder::correction_for without the final swap_xz.
CssDecoder_correction_for_not_swapped(self, syn) ==
    LET paired == Css_pair(self, syn)
    IN  Css(BpDecoder_correction_for(paired.x[1], paired.x[2]),
            BpDecoder_correction_for(paired.z[1], paired.z[2]))

\* CssDecoder::correction_for for a pair of BpDecoder.
CssDecoder_correction_for(self, syn) ==
    LET paired == Css_pair(self, syn)
    IN  swap_xz(Css(BpDecoder_correction_for(paired.x[1], paired.x[2]),
                    BpDecoder_correction_for(paired.z[1], paired.z[2])))

-----------------------------------------------------------------------------
(* CssCode as a value (codes/css/mod.rs) and the CssErasureDecoder         *)
(* (decoders/css_erasure.rs).                                              *)

\* SparseBinMat::new: panics when a position of a row is not smaller than
\* the number of columns.
SparseBinMat_new(ncols, rows) ==
    IF \E i \in 1..Len(rows) : \E p \in rows[i] : p >= ncols
    THEN Panic
    ELSE SparseBinMat(ncols, rows)

\* SparseBinMat::horizontal_concat_with: the rows of B are appended to the
\* rows of A, their positions shifted by the number of columns of A.
horizontal_concat_with(A, B) ==
    LET rows_of(M, i) == IF i <= number_of_rows(M) THEN M.rows[i] ELSE {}
        n == IF number_of_rows(A) >= number_of_rows(B)
             THEN number_of_rows(A) ELSE number_of_rows(B)
    IN  SparseBinMat(A.number_of_columns + B.number_of_columns,
            [i \in 1..n |->
                rows_of(A, i) \cup {p + A.number_of_columns : p \in rows_of(B, i)}])

\* The loop of Logicals::compute run to its end.
RECURSIVE Logicals_compute(_)
Logicals_compute(l) ==
    IF Len(l.raw_x_generators) = 0
    THEN compute_result(l)
    ELSE Logicals_compute(compute_iteration(l))

\* CssCode::try_new
CssCode_try_new(xc, zc) ==
    LET checked == try_new_checks(xc, zc)
    IN  IF checked = Proceed
        THEN [tag |-> "Ok",
              value |-> CssCodeOf(xc, zc, Logicals_compute(Logicals_new(xc, zc)))]
        ELSE checked

\* CssCode::steane_code
steane_code == CssCode_try_new(hamming_code, hamming_code).value

\* CssCode::shor_code
shor_code ==
    [stabilizers |->
        [x |-> SparseBinMat(9, <<{0, 1, 2, 3, 4, 5}, {3, 4, 5, 6, 7, 8}>>),
         z |-> SparseBinMat(9, <<{0, 1}, {1, 2}, {3, 4}, {4, 5}, {6, 7}, {7, 8}>>)],
     logicals |->
        [x |-> SparseBinMat(9, <<{0, 1, 2}>>),
         z |-> SparseBinMat(9, <<{0, 3, 6}>>)]]

\* CssCode::len
CssCode_len(c) == c.stabilizers.x.number_of_columns

\* CssErasureDecoder::new
CssErasureDecoder_new(c) == [code |-> c]

\* CssErasureDecoder::error_basis: one row for each erased position.
error_basis(self, erasure) ==
    LET positions == SortedSeq(erasure.ones)
    IN  SparseBinMat_new(CssCode_len(self.code),
            [i \in 1..Len(positions) |-> {positions[i]}])

\* CssErasureDecoder::num_bad_errors: the count as the record [value |-> n],
\* or a panic of SparseBinMat::new.
num_bad_errors(errors, stabs, logicals) ==
    LET row(i) == SparseBinVec(errors.number_of_columns, errors.rows[i])
        syndrome_matrix ==
            SparseBinMat_new(stabs.number_of_columns,
                [i \in 1..number_of_rows(errors) |-> MatVec(stabs, row(i)).ones])
        logical_matrix ==
            SparseBinMat_new(logicals.number_of_columns,
                [i \in 1..number_of_rows(errors) |-> MatVec(logicals, row(i)).ones])
    IN  IF IsPanic(syndrome_matrix) \/ IsPanic(logical_matrix)
        THEN Panic
        ELSE [value |-> Rank(horizontal_concat_with(syndrome_matrix, logical_matrix))
                            - Rank(syndrome_matrix)]

\* CssErasureDecoder::num_bad_x_errors
num_bad_x_errors(self, errors) ==
    num_bad_errors(errors, self.code.stabilizers.z, self.code.logicals.z)

\* CssErasureDecoder::num_bad_z_errors
num_bad_z_errors(self, errors) ==
    num_bad_errors(errors, self.code.stabilizers.x, self.code.logicals.x)

\* CssErasureDecoder::recovery_probability: the value 1 / 2^n as the record
\* [value |-> <<1, 2^n>>], or a panic of one of the counts.
recovery_probability(self, erasure) ==
    LET errors == error_basis(self, erasure)
        bad_x == num_bad_x_errors(self, errors)
        bad_z == num_bad_z_errors(self, errors)
    IN  IF IsPanic(bad_x) \/ IsPanic(bad_z)
        THEN Panic
        ELSE [value |-> <<1, 2 ^ (bad_x.value + bad_z.value)>>]

-----------------------------------------------------------------------------
(* Queries on a LinearCode (linear_code/mod.rs).                           *)

\* Option::None and Option::Some
None == [tag |-> "None"]

Some(v) == [tag |-> "Some", value |-> v]

\* LinearCode::has_same_codespace_as
has_same_codespace_as(self, other) ==
    /\ block_size(self) = block_size(other)
    /\ IsZeroMat(MatMul(self.parity_check_matrix, Transposed(other.generator_matrix)))

\* LinearCode::number_of_generators
number_of_generators(c) == number_of_rows(c.generator_matrix)

\* The sum of the generators chosen by Itertools::combinations, given by
\* their indices.
SumOfGenerators(c, chosen) ==
    {p \in 0..(block_size(c) - 1) :
        Cardinality({i \in chosen : p \in c.generator_matrix.rows[i]}) % 2 = 1}

\* LinearCode::minimal_distance keeping the combinations of weight zero.
minimal_distance_keeping_zero(c) ==
    LET weights == {Cardinality(SumOfGenerators(c, chosen)) :
                       chosen \in (SUBSET (1..number_of_generators(c))) \ {{}}}
    IN  IF weights = {} THEN None ELSE Some(Min(weights))

\* LinearCode::minimal_distance
minimal_distance(c) ==
    LET weights == {Cardinality(SumOfGenerators(c, chosen)) :
                       chosen \in (SUBSET (1..number_of_generators(c))) \ {{}}} \ {0}
    IN  IF weights = {} THEN None ELSE Some(Min(weights))

-----------------------------------------------------------------------------
(* CssCode::hypergraph_product (codes/css/mod.rs).                         *)

\* SparseBinMat::kron_with: the row (i, j) of the Kronecker product holds
\* the positions (a, b), a in the row i of A and b in the row j of B.
kron_with(A, B) ==
    SparseBinMat(A.number_of_columns * B.number_of_columns,
        [k \in 1..(number_of_rows(A) * number_of_rows(B)) |->
            {a * B.number_of_columns + b :
                <<a, b>> \in A.rows[((k - 1) \div number_of_rows(B)) + 1]
                               \X B.rows[((k - 1) % number_of_rows(B)) + 1]}])

\* CssCode::new: try_new, a panic in place of an error.
CssCode_new(xc, zc) ==
    LET tried == CssCode_try_new(xc, zc)
    IN  IF tried.tag = "Ok" THEN tried.value ELSE Panic

\* CssCode::hypergraph_product_x_checks
hypergraph_product_x_checks(first_code, second_code) ==
    horizontal_concat_with(
        kron_with(Identity(block_size(first_code)), second_code.parity_check_matrix),
        kron_with(Transposed(first_code.parity_check_matrix),
                  Identity(number_of_checks(second_code))))

\* CssCode::hypergraph_product_z_checks with the factors of the first
\* product exchanged.
hypergraph_product_z_checks_exchanged(first_code, second_code) ==
    horizontal_concat_with(
        kron_with(Identity(block_size(second_code)), first_code.parity_check_matrix),
        kron_with(Identity(number_of_checks(first_code)),
                  Transposed(second_code.parity_check_matrix)))

\* CssCode::hypergraph_product_z_checks
hypergraph_product_z_checks(first_code, second_code) ==
    horizontal_concat_with(
        kron_with(first_code.parity_check_matrix, Identity(block_size(second_code))),
        kron_with(Identity(number_of_checks(first_code)),
                  Transposed(second_code.parity_check_matrix)))

\* CssCode::hypergraph_product
hypergraph_product(first_code, second_code) ==
    CssCode_new(
        from_parity_check_matrix(hypergraph_product_x_checks(first_code, second_code)),
        from_parity_check_matrix(hypergraph_product_z_checks(first_code, second_code)))

-----------------------------------------------------------------------------
(* Decoding calls sharing one decoder: FlipDecoder::decode                 *)
(* (classical/decoders/flip.rs), BpDecoder::correction_for                 *)
(* (decoders/belief_propagation.rs) and CssDecoder::correction_for         *)
(* (decoders/css.rs).  The decoder is borrowed by each call, the variables *)
(* of a call are its own.                                                  *)

\* FlipDecoder::new
FlipDecoder_new(c) == [code |-> c]

\* The loop of FlipDecoder::decode run to its end.
RECURSIVE decode_loop(_, _, _)
decode_loop(c, syn, out) ==
    IF find_flippable(c, syn) = -1
    THEN out
    ELSE LET update == SparseBinVec(block_size(c), {find_flippable(c, syn)})
         IN  decode_loop(c, VecAdd(syn, syndrome_of(c, update)), VecAdd(out, update))

\* FlipDecoder::decode as a function of the decoder and the message.
FlipDecoder_decode(self, msg) ==
    decode_loop(self.code, syndrome_of(self.code, msg), SparseBinVec(msg.len, msg.ones))

\* A call that has not started.
IdleCall == [pc |-> "idle", input |-> NoVec, locals |-> NoVec, output |-> NoVec]

\* The local variables of a call before its loop: syndrome and output of
\* FlipDecoder::decode, the BpState of BpDecoder::correction_for, one BpState
\* for each decoder of the pair of CssDecoder::correction_for.
call_locals(shared, input) ==
    CASE shared.kind = "flip" ->
            [syndrome |-> syndrome_of(shared.decoder.code, input),
             output |-> SparseBinVec(input.len, input.ones)]
      [] shared.kind = "bp" -> initialize_from(shared.decoder, input)
      [] shared.kind = "css" ->
            Css(initialize_from(shared.decoder.x, input.x),
                initialize_from(shared.decoder.z, input.z))

\* The loop of the call has ended.
call_done(shared, locals) ==
    CASE shared.kind = "flip" -> find_flippable(shared.decoder.code, locals.syndrome) = -1
      [] shared.kind = "bp" -> stop_condition(shared.decoder, locals)
      [] shared.kind = "css" ->
            /\ stop_condition(shared.decoder.x, locals.x)
            /\ stop_condition(shared.decoder.z, locals.z)

\* One iteration of the loop of the call; the pair of decoders runs the X
\* decoder to its end, then the Z decoder.
call_step(shared, locals) ==
    CASE shared.kind = "flip" ->
            LET update == SparseBinVec(block_size(shared.decoder.code),
                              {find_flippable(shared.decoder.code, locals.syndrome)})
            IN  [syndrome |-> VecAdd(locals.syndrome,
                                     syndrome_of(shared.decoder.code, update)),
                 output |-> VecAdd(locals.output, update)]
      [] shared.kind = "bp" -> update_once(locals)
      [] shared.kind = "css" ->
            IF ~stop_condition(shared.decoder.x, locals.x)
            THEN Css(update_once(locals.x), locals.z)
            ELSE Css(locals.x, update_once(locals.z))

\* The value the call returns.
call_output(shared, locals) ==
    CASE shared.kind = "flip" -> locals.output
      [] shared.kind = "bp" -> BpState_decode(locals)
      [] shared.kind = "css" ->
            swap_xz(Css(BpState_decode(locals.x), BpState_decode(locals.z)))

\* The local variables kept in one place for all the calls on the decoder.
store_locals_in_decoder(cs, i, locals) ==
    [j \in DOMAIN cs |-> [cs[j] EXCEPT !.locals = locals]]

\* The local variables of the call i take a new value.
store_locals(cs, i, locals) == [cs EXCEPT ![i].locals = locals]

-----------------------------------------------------------------------------
(* RandomRegularCode (linear_code/random.rs).  The sampler of regular      *)
(* bipartite graphs is of the bigs crate: its builder refuses parameters   *)
(* with n * b # m * c, and a sample is a graph in which each of the n      *)
(* variables has b constraints and each of the m constraints c variables.  *)

\* RandomRegularCode::default, returned by LinearCode::random_regular_code.
random_regular_code ==
    [block_size |-> 0, number_of_checks |-> 0, bit_degree |-> 0, check_degree |-> 0]

\* bigs::error::InvalidParameters
InvalidParameters(n, m, b, c) ==
    [number_of_variables |-> n, number_of_constraints |-> m,
     variable_degree |-> b, constraint_degree |-> c]

\* SamplerBuilder::build
Sampler_build(n, m, b, c) ==
    IF n * b # m * c
    THEN [tag |-> "Err", error |-> InvalidParameters(n, m, b, c)]
    ELSE [tag |-> "Ok", value |-> InvalidParameters(n, m, b, c)]

\* The subsets of S with k elements.
KSubsets(S, k) == {T \in SUBSET S : Cardinality(T) = k}

\* The orders in which the elements of S can be iterated.
Orders(S) ==
    {order \in [1..Cardinality(S) -> S] : \A x \in S : \E i \in DOMAIN order : order[i] = x}

\* Sampler::sample_with: the graphs the random number generator can give,
\* the constraints in the order Graph::constraints iterates them.
Sampler_sample_with(sampler) ==
    LET n == sampler.number_of_variables
        m == sampler.number_of_constraints
        regular == {neighbors \in [0..(m - 1) -> KSubsets(0..(n - 1), sampler.constraint_degree)] :
                       \A bit \in 0..(n - 1) :
                           Cardinality({check \in 0..(m - 1) : bit \in neighbors[check]})
                               = sampler.variable_degree}
    IN  {[number_of_variables |-> n,
          constraints |-> [i \in 1..m |-> [label |-> order[i], neighbors |-> neighbors[order[i]]]]] :
            <<neighbors, order>> \in regular \X Orders(0..(m - 1))}

\* convert_graph_into_code with a row for each variable of the graph.
convert_graph_into_code_by_variables(graph) ==
    LET checks == [bit \in 1..graph.number_of_variables |->
                      {graph.constraints[i].label :
                          i \in {j \in DOMAIN graph.constraints :
                                    bit - 1 \in graph.constraints[j].neighbors}}]
    IN  from_parity_check_matrix(SparseBinMat_new(Len(graph.constraints), checks))

\* convert_graph_into_code: the neighbors of the constraints sorted by label
\* are the rows of the parity check matrix.
convert_graph_into_code(graph) ==
    LET labels == SortedSeq({graph.constraints[i].label : i \in DOMAIN graph.constraints})
        node(label) == CHOOSE nd \in {graph.constraints[i] : i \in DOMAIN graph.constraints} :
                           nd.label = label
        checks == [i \in 1..Len(labels) |-> node(labels[i]).neighbors]
    IN  from_parity_check_matrix(SparseBinMat_new(graph.number_of_variables, checks))

\* SamplingError::from_error
SamplingError_from_error(error) ==
    [block_size |-> error.number_of_variables,
     number_of_checks |-> error.number_of_constraints,
     bit_degree |-> error.variable_degree,
     check_degree |-> error.constraint_degree]

\* RandomRegularCode::sample_with: the values it can return.
sample_with(self) ==
    LET built == Sampler_build(self.block_size, self.number_of_checks,
                               self.bit_degree, self.check_degree)
    IN  IF built.tag = "Err"
        THEN {[tag |-> "Err", error |-> SamplingError_from_error(built.error)]}
        ELSE {[tag |-> "Ok", value |-> convert_graph_into_code(graph)] :
                 graph \in Sampler_sample_with(built.value)}

-----------------------------------------------------------------------------
(* CssCode::toric_code (codes/css/mod.rs).                                 *)

\* The cyclic repetition code of toric_code: the checks {c, c + 1} and the
\* check {0, distance - 1}.
toric_code_checks(distance) ==
    from_parity_check_matrix(
        SparseBinMat_new(distance,
            [c \in 1..(distance - 1) |-> {c - 1, c}] \o <<{0, distance - 1}>>))

\* CssCode::toric_code
toric_code(distance) ==
    hypergraph_product(toric_code_checks(distance), toric_code_checks(distance))

-----------------------------------------------------------------------------
(* Specification of the LinearCode constructors: one code is built.        *)

InitLinear ==
    /\ code = empty
    /\ x_code = empty
    /\ z_code = empty
    /\ pc = "start"
    /\ result = NoResult
    /\ lg = NoLogicals
    /\ FlipIdle
    /\ BpIdle
    /\ DecIdle
    /\ QueryIdle

FromParityCheckMatrix ==
    /\ pc = "start"
    /\ \E M \in Matrices(MaxLen, MaxRows) : code' = from_parity_check_matrix(M)
    /\ pc' = "built"
    /\ UNCHANGED notLinear

FromGeneratorMatrix ==
    /\ pc = "start"
    /\ \E M \in Matrices(MaxLen, MaxRows) : code' = from_generator_matrix(M)
    /\ pc' = "built"
    /\ UNCHANGED notLinear

HammingCode ==
    /\ pc = "start"
    /\ code' = hamming_code
    /\ pc' = "built"
    /\ UNCHANGED notLinear

RepetitionCode ==
    /\ pc = "start"
    /\ \E n \in 1..MaxLen : code' = repetition_code(n)
    /\ pc' = "built"
    /\ UNCHANGED notLinear

NextLinear ==
    \/ FromParityCheckMatrix
    \/ FromGeneratorMatrix
    \/ HammingCode
    \/ RepetitionCode

SpecLinear == InitLinear /\ [][NextLinear]_vars

-----------------------------------------------------------------------------
(* Specification of CssCode::try_new: the two codes are built, then        *)
(* try_new is called on them.                                              *)

CssCodes ==
    {from_parity_check_matrix(M) : M \in Matrices(CssLen, CssRows)}
        \cup {from_generator_matrix(M) : M \in Matrices(CssLen, CssRows)}

InitCss ==
    /\ code = empty
    /\ x_code = empty
    /\ z_code = empty
    /\ pc = "x_code"
    /\ result = NoResult
    /\ lg = NoLogicals
    /\ FlipIdle
    /\ BpIdle
    /\ DecIdle
    /\ QueryIdle

NewXCode ==
    /\ pc = "x_code"
    /\ \E c \in CssCodes : x_code' = c
    /\ pc' = "z_code"
    /\ UNCHANGED <<z_code, result, lg, notCss>>

NewZCode ==
    /\ pc = "z_code"
    /\ \E c \in CssCodes : z_code' = c
    /\ pc' = "idle"
    /\ UNCHANGED <<x_code, result, lg, notCss>>

\* CssCode::steane_code: try_new on the Hamming code paired with itself.
SteaneCode ==
    /\ pc = "x_code"
    /\ x_code' = hamming_code
    /\ z_code' = hamming_code
    /\ pc' = "idle"
    /\ UNCHANGED <<result, lg, notCss>>

\* The head of try_new: an error is returned, or the logicals are started.
TryNew ==
    /\ pc = "idle"
    /\ LET checked == try_new_checks(x_code, z_code)
       IN  IF checked = Proceed
           THEN /\ lg' = Logicals_new(x_code, z_code)
                /\ pc' = "compute"
                /\ UNCHANGED result
           ELSE /\ result' = checked
                /\ pc' = "returned"
                /\ UNCHANGED lg
    /\ UNCHANGED <<x_code, z_code, notCss>>

ComputeIteration ==
    /\ pc = "compute"
    /\ Len(lg.raw_x_generators) > 0
    /\ lg' = compute_iteration(lg)
    /\ UNCHANGED <<x_code, z_code, pc, result, notCss>>

ComputeReturn ==
    /\ pc = "compute"
    /\ Len(lg.raw_x_generators) = 0
    /\ result' = [tag |-> "Ok", value |-> CssCodeOf(x_code, z_code, compute_result(lg))]
    /\ pc' = "returned"
    /\ UNCHANGED <<x_code, z_code, lg, notCss>>

NextCss ==
    \/ NewXCode
    \/ NewZCode
    \/ SteaneCode
    \/ TryNew
    \/ ComputeIteration
    \/ ComputeReturn

SpecCss == InitCss /\ [][NextCss]_vars

-----------------------------------------------------------------------------
(* Specification of FlipDecoder::decode: a decoder is built on a code and  *)
(* decodes one message.                                                    *)

FlipCodes ==
    {hamming_code} \cup {from_parity_check_matrix(M) : M \in Matrices(MaxLen, MaxRows)}

Words(n) == {SparseBinVec(n, ones) : ones \in SUBSET (0..(n - 1))}

InitFlip ==
    /\ code \in FlipCodes
    /\ x_code = empty
    /\ z_code = empty
    /\ pc = "unused"
    /\ result = NoResult
    /\ lg = NoLogicals
    /\ FlipIdle
    /\ BpIdle
    /\ DecIdle
    /\ QueryIdle

\* The call of decode and the statements before its loop.
DecodeCall ==
    /\ fpc = "idle"
    /\ \E m \in Words(block_size(code)) :
           /\ message' = m
           /\ syndrome' = syndrome_of(code, m)
           /\ output' = SparseBinVec(m.len, m.ones)
    /\ fpc' = "loop"
    /\ UNCHANGED notFlip

\* One iteration of the loop of decode: a flippable bit is found.
DecodeFlip ==
    /\ fpc = "loop"
    /\ find_flippable(code, syndrome) # -1
    /\ LET bit == find_flippable(code, syndrome)
           update == SparseBinVec(block_size(code), {bit})
       IN  /\ syndrome' = VecAdd(syndrome, syndrome_of(code, update))
           /\ output' = VecAdd(output, update)
    /\ UNCHANGED <<message, fpc, notFlip>>

\* The end of the loop of decode: no bit is flippable, output is returned.
DecodeReturn ==
    /\ fpc = "loop"
    /\ find_flippable(code, syndrome) = -1
    /\ fpc' = "returned"
    /\ UNCHANGED <<message, output, syndrome, notFlip>>

NextFlip ==
    \/ DecodeCall
    \/ DecodeFlip
    \/ DecodeReturn

SpecFlip == InitFlip /\ [][NextFlip]_vars

-----------------------------------------------------------------------------
(* Specification of BpDecoder::correction_for: a decoder is built by       *)
(* BpDecoder::new and asked once for the correction of a syndrome of the   *)
(* length of its number of checks.                                         *)

\* The crossover probabilities given to BpDecoder::new, as pairs <<n, d>>.
Probabilities == {<<0, 1>>, <<1, 3>>, <<1, 2>>, <<2, 3>>, <<1, 1>>}

\* The parity check matrices given to BpDecoder::new.
BpMatrices ==
    {M \in Matrices(BpLen, BpRows) : Cardinality(non_trivial_elements(M)) <= MaxEdges}

InitBp ==
    /\ code = empty
    /\ x_code = empty
    /\ z_code = empty
    /\ pc = "unused"
    /\ result = NoResult
    /\ lg = NoLogicals
    /\ FlipIdle
    /\ DecIdle
    /\ QueryIdle
    /\ probability \in Probabilities
    /\ \E parity_mat \in BpMatrices, num_iterations \in 0..MaxIterations :
           decoder = BpDecoder_new(parity_mat, probability, num_iterations)
    /\ state = NoVec
    /\ correction = NoVec
    /\ bpc = "idle"

\* The call of correction_for and initialize_from.
CorrectionForCall ==
    /\ bpc = "idle"
    /\ \E syn \in Words(number_of_rows(decoder.parity_mat)) :
           state' = initialize_from(decoder, syn)
    /\ bpc' = "loop"
    /\ UNCHANGED <<decoder, probability, correction, notBp>>

\* One turn of the loop of update_while: the condition is false.
UpdateOnce ==
    /\ bpc = "loop"
    /\ ~stop_condition(decoder, state)
    /\ state' = update_once(state)
    /\ UNCHANGED <<decoder, probability, correction, bpc, notBp>>

\* The condition of update_until is true: the final decode.
CorrectionForReturn ==
    /\ bpc = "loop"
    /\ stop_condition(decoder, state)
    /\ correction' = BpState_decode(state)
    /\ bpc' = "returned"
    /\ UNCHANGED <<decoder, probability, state, notBp>>

NextBp ==
    \/ CorrectionForCall
    \/ UpdateOnce
    \/ CorrectionForReturn

SpecBp == InitBp /\ [][NextBp]_vars

-----------------------------------------------------------------------------
(* Specification of CssDecoder::correction_for: the decoder is built from  *)
(* the stabilizers of a CSS code as in examples/css_decoding.rs and asked  *)
(* once for the correction of a syndrome.                                  *)

\* The stabilizers of the CSS codes: two orthogonal matrices on the same
\* number of qubits.
DecStabilizers ==
    {Css(p[1], p[2]) : p \in
        {q \in BpMatrices \X BpMatrices :
            /\ q[1].number_of_columns = q[2].number_of_columns
            /\ number_of_rows(q[1]) + number_of_rows(q[2]) <= DecChecks
            /\ IsZeroMat(MatMul(q[1], Transposed(q[2])))}}

InitDec ==
    /\ code = empty
    /\ x_code = empty
    /\ z_code = empty
    /\ pc = "unused"
    /\ result = NoResult
    /\ lg = NoLogicals
    /\ FlipIdle
    /\ BpIdle
    /\ css_decoder = NoVec
    /\ css_syndrome = NoVec
    /\ css_correction = NoVec
    /\ dpc = "new"
    /\ QueryIdle

\* The function decoder of the example: a BpDecoder on each stabilizer matrix.
NewCssDecoder ==
    /\ dpc = "new"
    /\ \E stabilizers \in DecStabilizers, prob \in Probabilities,
          max_iterations \in {MaxIterations} :
           css_decoder' = Css(BpDecoder_new(stabilizers.x, prob, max_iterations),
                              BpDecoder_new(stabilizers.z, prob, max_iterations))
    /\ dpc' = "idle"
    /\ UNCHANGED <<css_syndrome, css_correction, notDec>>

\* CssDecoder::correction_for on a syndrome of the lengths of the two
\* stabilizer matrices.
CssCorrectionFor ==
    /\ dpc = "idle"
    /\ \E sx \in Words(number_of_rows(css_decoder.x.parity_mat)),
          sz \in Words(number_of_rows(css_decoder.z.parity_mat)) :
           /\ css_syndrome' = Css(sx, sz)
           /\ css_correction' = CssDecoder_correction_for(css_decoder, Css(sx, sz))
    /\ dpc' = "returned"
    /\ UNCHANGED <<css_decoder, notDec>>

NextDec ==
    \/ NewCssDecoder
    \/ CssCorrectionFor

SpecDec == InitDec /\ [][NextDec]_vars

-----------------------------------------------------------------------------
(* Specification of CssErasureDecoder::recovery_probability: a decoder is  *)
(* built on a CSS code and asked for the recovery probability of an        *)
(* erasure.                                                                *)

\* The pairs of parity check matrices on at most maxlen qubits with at most
\* maxchecks rows together that CssCode::new accepts.
CssCodePairs(maxlen, maxchecks) ==
    UNION {UNION {UNION {
        {p \in {SparseBinMat(n, rows) : rows \in [1..a -> SUBSET (0..(n - 1))]}
                  \X {SparseBinMat(n, rows) : rows \in [1..b -> SUBSET (0..(n - 1))]} :
            try_new_checks(from_parity_check_matrix(p[1]),
                           from_parity_check_matrix(p[2])) = Proceed}
        : b \in 0..(maxchecks - a)} : a \in 0..maxchecks} : n \in 0..maxlen}

\* The CSS codes CssCode::new builds from the pairs within the bounds, and the
\* two codes of the tests.
ErasureCodes ==
    {shor_code, steane_code} \cup
    {CssCode_try_new(from_parity_check_matrix(p[1]),
                     from_parity_check_matrix(p[2])).value :
        p \in CssCodePairs(ErasureLen, ErasureChecks)}

InitErasure ==
    /\ code = empty
    /\ x_code = empty
    /\ z_code = empty
    /\ pc = "unused"
    /\ result = NoResult
    /\ lg = NoLogicals
    /\ FlipIdle
    /\ BpIdle
    /\ DecIdle
    /\ QueryIdle

NewErasureDecoder ==
    /\ qpc = "idle"
    /\ \E c \in ErasureCodes : receiver' = CssErasureDecoder_new(c)
    /\ qpc' = "ready"
    /\ UNCHANGED <<argument, returned, notQuery>>

RecoveryProbability ==
    /\ qpc = "ready"
    /\ \E erasure \in Words(CssCode_len(receiver.code)) :
           /\ argument' = erasure
           /\ returned' = recovery_probability(receiver, erasure)
    /\ qpc' = "returned"
    /\ UNCHANGED <<receiver, notQuery>>

NextErasure ==
    \/ NewErasureDecoder
    \/ RecoveryProbability

SpecErasure == InitErasure /\ [][NextErasure]_vars

-----------------------------------------------------------------------------
(* Specification of the queries on a LinearCode: a code is built, then one *)
(* of its methods is called.                                               *)

QueryCodes ==
    {hamming_code, repetition_code(3)}
        \cup {from_parity_check_matrix(M) : M \in Matrices(QueryLen, QueryRows)}
        \cup {from_generator_matrix(M) : M \in Matrices(QueryLen, QueryRows)}

\* The messages given to the code: of its block size and of the other
\* lengths up to the bound.
QueryWords(c) == Words(block_size(c)) \cup UNION {Words(n) : n \in 0..QueryLen}

InitQuery ==
    /\ code = empty
    /\ x_code = empty
    /\ z_code = empty
    /\ pc = "unused"
    /\ result = NoResult
    /\ lg = NoLogicals
    /\ FlipIdle
    /\ BpIdle
    /\ DecIdle
    /\ QueryIdle

NewLinearCode ==
    /\ qpc = "idle"
    /\ receiver' \in QueryCodes
    /\ qpc' = "ready"
    /\ UNCHANGED <<argument, returned, notQuery>>

HasSameCodespaceAs ==
    /\ qpc = "ready"
    /\ \E other \in QueryCodes :
           /\ argument' = other
           /\ returned' = [value |-> has_same_codespace_as(receiver, other)]
    /\ qpc' = "has_same_codespace_as"
    /\ UNCHANGED <<receiver, notQuery>>

SyndromeOf ==
    /\ qpc = "ready"
    /\ \E msg \in QueryWords(receiver) :
           /\ argument' = msg
           /\ returned' = syndrome_of(receiver, msg)
    /\ qpc' = "syndrome_of"
    /\ UNCHANGED <<receiver, notQuery>>

HasCodeword ==
    /\ qpc = "ready"
    /\ \E operator \in QueryWords(receiver) :
           /\ argument' = operator
           /\ returned' = IF IsPanic(syndrome_of(receiver, operator))
                          THEN Panic
                          ELSE [value |-> has_codeword(receiver, operator)]
    /\ qpc' = "has_codeword"
    /\ UNCHANGED <<receiver, notQuery>>

MinimalDistance ==
    /\ qpc = "ready"
    /\ returned' = minimal_distance(receiver)
    /\ qpc' = "minimal_distance"
    /\ UNCHANGED <<receiver, argument, notQuery>>

NextQuery ==
    \/ NewLinearCode
    \/ SyndromeOf
    \/ HasCodeword
    \/ MinimalDistance

SpecQuery == InitQuery /\ [][NextQuery]_vars

\* A code is built, then compared with another one.
NextCodespace ==
    \/ NewLinearCode
    \/ HasSameCodespaceAs

SpecCodespace == InitQuery /\ [][NextCodespace]_vars

-----------------------------------------------------------------------------
(* Specification of the queries on a CssCode: a code is built, then one of *)
(* syndrome_of, has_logical and has_stabilizer is called on an operator.   *)

\* The sums of at most two rows of the matrices and the single positions.
SmallSums(n, matrices) ==
    LET rows == UNION {{M.rows[i] : i \in 1..number_of_rows(M)} : M \in matrices}
    IN  {{}} \cup {{q} : q \in 0..(n - 1)} \cup rows
             \cup {SymDiff(a, b) : <<a, b>> \in rows \X rows}

\* The operators given to a code: all of them on a small code, and on a
\* larger one those whose parts are small sums of generators.
StabOperators(c) ==
    LET n == CssCode_len(c)
        xs == IF n <= StabLen THEN SUBSET (0..(n - 1))
              ELSE SmallSums(n, {c.stabilizers.x, c.logicals.x})
        zs == IF n <= StabLen THEN SUBSET (0..(n - 1))
              ELSE SmallSums(n, {c.stabilizers.z, c.logicals.z})
    IN  {PauliFromParts(n, x, z) : <<x, z>> \in xs \X zs}

\* A code has been built and no method has been called on it yet.
Built == {"new", "shor_code", "steane_code", "hypergraph_product"}

NewCssCode ==
    /\ qpc = "idle"
    /\ \E p \in CssCodePairs(StabLen, StabChecks) :
           receiver' = CssCode_try_new(from_parity_check_matrix(p[1]),
                                       from_parity_check_matrix(p[2])).value
    /\ qpc' = "new"
    /\ UNCHANGED <<argument, returned, notQuery>>

ShorCode ==
    /\ qpc = "idle"
    /\ receiver' = shor_code
    /\ qpc' = "shor_code"
    /\ UNCHANGED <<argument, returned, notQuery>>

SteaneCodeBuilt ==
    /\ qpc = "idle"
    /\ receiver' = steane_code
    /\ qpc' = "steane_code"
    /\ UNCHANGED <<argument, returned, notQuery>>

CssSyndromeOf(operators) ==
    /\ qpc \in Built
    /\ \E operator \in operators :
           /\ argument' = operator
           /\ returned' = CssCode_syndrome_of(receiver.stabilizers, operator)
    /\ qpc' = "syndrome_of"
    /\ UNCHANGED <<receiver, notQuery>>

HasLogical(operators) ==
    /\ qpc \in Built
    /\ \E operator \in operators :
           /\ argument' = operator
           /\ returned' = [value |-> has_logical(receiver, operator)]
    /\ qpc' = "has_logical"
    /\ UNCHANGED <<receiver, notQuery>>

HasStabilizer(operators) ==
    /\ qpc \in Built
    /\ \E operator \in operators :
           /\ argument' = operator
           /\ returned' = [value |-> has_stabilizer(receiver, operator)]
    /\ qpc' = "has_stabilizer"
    /\ UNCHANGED <<receiver, notQuery>>

NextStab ==
    \/ NewCssCode
    \/ ShorCode
    \/ SteaneCodeBuilt
    \/ CssSyndromeOf(StabOperators(receiver))
    \/ HasLogical(StabOperators(receiver))
    \/ HasStabilizer(StabOperators(receiver))

SpecStab == InitQuery /\ [][NextStab]_vars

-----------------------------------------------------------------------------
(* Specification of CssCode::hypergraph_product: the product of two linear *)
(* codes is built, then queried.                                           *)

\* The 3 bit repetition code from its parity check matrix, as in the
\* documentation of from_parity_check_matrix.
repetition_code_from_checks ==
    from_parity_check_matrix(SparseBinMat(3, <<{0, 1}, {1, 2}>>))

ProductCodes ==
    {repetition_code(3), repetition_code_from_checks}
        \cup {from_parity_check_matrix(M) : M \in Matrices(ProductLen, ProductRows)}

\* The operators of the tests of the product code, and their products.
ProductOperators(c) ==
    LET n == CssCode_len(c)
        parts == {s \in {{}, {0}, {0, 3, 6}, {0, 1, 2}} : s \subseteq 0..(n - 1)}
    IN  {PauliFromParts(n, x, z) : <<x, z>> \in parts \X parts}

HypergraphProduct ==
    /\ qpc = "idle"
    /\ \E first_code \in ProductCodes, second_code \in ProductCodes :
           /\ argument' = <<first_code, second_code>>
           /\ receiver' = hypergraph_product(first_code, second_code)
           /\ qpc' = IF IsPanic(hypergraph_product(first_code, second_code))
                     THEN "panicked"
                     ELSE "hypergraph_product"
    /\ UNCHANGED <<returned, notQuery>>

NextProduct ==
    \/ HypergraphProduct
    \/ CssSyndromeOf(ProductOperators(receiver))
    \/ HasLogical(ProductOperators(receiver))
    \/ HasStabilizer(ProductOperators(receiver))

SpecProduct == InitQuery /\ [][NextProduct]_vars

-----------------------------------------------------------------------------
(* Specification of the decoding calls on a shared decoder: a decoder is   *)
(* built, then calls on it begin, iterate and return in any order.         *)

SharedDecoders ==
    {[kind |-> "flip", decoder |-> FlipDecoder_new(hamming_code)]}
        \cup {[kind |-> "bp",
               decoder |-> BpDecoder_new(SparseBinMat(3, <<{0, 1}, {1, 2}>>), p, MaxIterations)] :
                 p \in {<<1, 3>>, <<2, 3>>}}
        \cup {[kind |-> "css",
               decoder |-> Css(BpDecoder_new(SparseBinMat(2, <<{0, 1}>>), <<1, 3>>, MaxIterations),
                               BpDecoder_new(SparseBinMat(2, <<{0, 1}>>), <<1, 3>>, MaxIterations))]}

\* The inputs of the calls: the words of weight at most one for the flip
\* decoder, every syndrome for the others.
SharedInputs(shared) ==
    CASE shared.kind = "flip" ->
            {w \in Words(block_size(shared.decoder.code)) : Cardinality(w.ones) <= 1}
      [] shared.kind = "bp" -> Words(number_of_rows(shared.decoder.parity_mat))
      [] shared.kind = "css" ->
            {Css(x, z) : <<x, z>> \in Words(number_of_rows(shared.decoder.x.parity_mat))
                                        \X Words(number_of_rows(shared.decoder.z.parity_mat))}

NewSharedDecoder ==
    /\ qpc = "idle"
    /\ receiver' \in SharedDecoders
    /\ calls' = [i \in 1..Calls |-> IdleCall]
    /\ qpc' = "shared"
    /\ UNCHANGED notShared

CallBegin(i) ==
    /\ qpc = "shared"
    /\ calls[i].pc \in {"idle", "returned"}
    /\ \E input \in SharedInputs(receiver) :
           calls' = store_locals([calls EXCEPT ![i] = [pc |-> "loop", input |-> input,
                                                      locals |-> NoVec, output |-> NoVec]],
                                 i, call_locals(receiver, input))
    /\ UNCHANGED <<receiver, qpc, notShared>>

CallStep(i) ==
    /\ qpc = "shared"
    /\ calls[i].pc = "loop"
    /\ ~call_done(receiver, calls[i].locals)
    /\ calls' = store_locals(calls, i, call_step(receiver, calls[i].locals))
    /\ UNCHANGED <<receiver, qpc, notShared>>

CallReturn(i) ==
    /\ qpc = "shared"
    /\ calls[i].pc = "loop"
    /\ call_done(receiver, calls[i].locals)
    /\ calls' = [calls EXCEPT ![i].pc = "returned",
                              ![i].output = call_output(receiver, calls[i].locals)]
    /\ UNCHANGED <<receiver, qpc, notShared>>

NextShared ==
    \/ NewSharedDecoder
    \/ \E i \in 1..Calls : CallBegin(i)
    \/ \E i \in 1..Calls : CallStep(i)
    \/ \E i \in 1..Calls : CallReturn(i)

SpecShared == InitQuery /\ [][NextShared]_vars

-----------------------------------------------------------------------------
(* Specification of FlipDecoder::decode on codes that can have more checks *)
(* than bits: the loop of decode runs on, an iteration or the return being *)
(* taken whenever one is possible.                                         *)

TallCodes(maxlen, maxchecks) ==
    {from_parity_check_matrix(M) : M \in Matrices(maxlen, maxchecks)}

InitTall ==
    /\ code \in TallCodes(TallLen, TallChecks)
    /\ x_code = empty
    /\ z_code = empty
    /\ pc = "unused"
    /\ result = NoResult
    /\ lg = NoLogicals
    /\ FlipIdle
    /\ BpIdle
    /\ DecIdle
    /\ QueryIdle

SpecTall ==
    InitTall /\ [][NextFlip]_vars /\ WF_vars(DecodeFlip) /\ WF_vars(DecodeReturn)

-----------------------------------------------------------------------------
(* Specification of RandomRegularCode: the builder is taken from           *)
(* LinearCode::random_regular_code, its four parameters are set in any     *)
(* order and a code is sampled.                                            *)

RandomRegularCodeDefault ==
    /\ qpc = "idle"
    /\ receiver' = random_regular_code
    /\ qpc' = "builder"
    /\ UNCHANGED <<argument, returned, notQuery>>

SetBlockSize ==
    /\ qpc = "builder"
    /\ \E n \in 0..RegularLen : receiver' = [receiver EXCEPT !.block_size = n]
    /\ UNCHANGED <<argument, returned, qpc, notQuery>>

SetNumberOfChecks ==
    /\ qpc = "builder"
    /\ \E m \in 0..RegularChecks : receiver' = [receiver EXCEPT !.number_of_checks = m]
    /\ UNCHANGED <<argument, returned, qpc, notQuery>>

SetBitDegree ==
    /\ qpc = "builder"
    /\ \E b \in 0..RegularDegree : receiver' = [receiver EXCEPT !.bit_degree = b]
    /\ UNCHANGED <<argument, returned, qpc, notQuery>>

SetCheckDegree ==
    /\ qpc = "builder"
    /\ \E c \in 0..RegularDegree : receiver' = [receiver EXCEPT !.check_degree = c]
    /\ UNCHANGED <<argument, returned, qpc, notQuery>>

SampleWith ==
    /\ qpc = "builder"
    /\ returned' \in sample_with(receiver)
    /\ qpc' = "sample_with"
    /\ UNCHANGED <<receiver, argument, notQuery>>

NextRegular ==
    \/ RandomRegularCodeDefault
    \/ SetBlockSize
    \/ SetNumberOfChecks
    \/ SetBitDegree
    \/ SetCheckDegree
    \/ SampleWith

SpecRegular == InitQuery /\ [][NextRegular]_vars

-----------------------------------------------------------------------------
(* Specification of from_linear_codes: try_new is called on two codes      *)
(* within the bounds, on the codes of the Steane code, on the codes of the *)
(* test shor_code of codes/css/logicals.rs, or on the codes that           *)
(* toric_code(3) gives to CssCode::new.                                    *)

\* The codes of the test shor_code.
ShorCodes ==
    /\ pc = "x_code"
    /\ x_code' = from_parity_check_matrix(
                     SparseBinMat_new(9, <<{0, 1}, {1, 2}, {3, 4}, {4, 5}, {6, 7}, {7, 8}>>))
    /\ z_code' = from_parity_check_matrix(
                     SparseBinMat_new(9, <<{0, 1, 2, 3, 4, 5}, {3, 4, 5, 6, 7, 8}>>))
    /\ pc' = "idle"
    /\ UNCHANGED <<result, lg, notCss>>

\* CssCode::toric_code(3) up to the call of CssCode::new.
ToricCode ==
    /\ pc = "x_code"
    /\ x_code' = from_parity_check_matrix(
                     hypergraph_product_x_checks(toric_code_checks(3), toric_code_checks(3)))
    /\ z_code' = from_parity_check_matrix(
                     hypergraph_product_z_checks(toric_code_checks(3), toric_code_checks(3)))
    /\ pc' = "idle"
    /\ UNCHANGED <<result, lg, notCss>>

NextLogicals ==
    \/ NewXCode
    \/ NewZCode
    \/ SteaneCode
    \/ ShorCodes
    \/ ToricCode
    \/ TryNew
    \/ ComputeIteration
    \/ ComputeReturn

SpecLogicals == InitCss /\ [][NextLogicals]_vars

-----------------------------------------------------------------------------
(* Specification of BpDecoder::decode on the Hamming code, with the        *)
(* decoder of the tests of decoders/belief_propagation.rs: probability 0.1 *)
(* and at most 10 iterations.  The message is any word of 7 bits: every    *)
(* one is a codeword or a codeword with one bit flipped.                   *)

InitHamming ==
    /\ code = hamming_code
    /\ x_code = empty
    /\ z_code = empty
    /\ pc = "unused"
    /\ result = NoResult
    /\ lg = NoLogicals
    /\ FlipIdle
    /\ DecIdle
    /\ QueryIdle
    /\ probability = <<1, 10>>
    /\ decoder = BpDecoder_new(code.parity_check_matrix, probability, 10)
    /\ state = NoVec
    /\ correction = NoVec
    /\ bpc = "idle"

\* The call of decode: the syndrome of the message and initialize_from.
DecodeBpCall ==
    /\ bpc = "idle"
    /\ message' \in Words(decoder.parity_mat.number_of_columns)
    /\ state' = initialize_from(decoder, MatVec(decoder.parity_mat, message'))
    /\ bpc' = "loop"
    /\ UNCHANGED <<code, pc, cssVars, output, syndrome, fpc, probability, decoder,
                   correction, decVars, queryVars, calls>>

\* The return of decode: the message plus the correction.
DecodeBpReturn ==
    /\ bpc = "returned"
    /\ message # NoVec
    /\ output' = VecAdd(message, correction)
    /\ bpc' = "decoded"
    /\ UNCHANGED <<code, pc, cssVars, message, syndrome, fpc, probability, decoder,
                   state, correction, decVars, queryVars, calls>>

NextHamming ==
    \/ DecodeBpCall
    \/ UpdateOnce
    \/ CorrectionForReturn
    \/ DecodeBpReturn

SpecHamming == InitHamming /\ [][NextHamming]_vars

-----------------------------------------------------------------------------
(* Properties.                                                             *)

\* C1: after from_parity_check_matrix and after from_generator_matrix the
\* stored matrices satisfy H G^T = 0: the product is the zero matrix and every
\* generator row has the all-zero syndrome.
C1_ParityTimesGeneratorIsZero ==
    LET product == MatMul(code.parity_check_matrix, Transposed(code.generator_matrix))
    IN  /\ ~IsPanic(product)
        /\ IsZeroMat(product)
        /\ \A i \in 1..number_of_rows(code.generator_matrix) :
               has_codeword(code, SparseBinVec(block_size(code), code.generator_matrix.rows[i]))

\* A code built from a generator matrix with two equal non zero rows: its
\* parity check matrix is the null space, with two non zero checks.
C1_Witness ==
    /\ number_of_rows(code.generator_matrix) = 2
    /\ code.generator_matrix.rows[1] = code.generator_matrix.rows[2]
    /\ code.generator_matrix.rows[1] # {}
    /\ number_of_rows(code.parity_check_matrix) = 2
    /\ \A i \in 1..2 : code.parity_check_matrix.rows[i] # {}

\* The rows of the two parity check matrices are pairwise orthogonal.
Orthogonal(xc, zc) ==
    \A i \in 1..number_of_checks(xc) : \A j \in 1..number_of_checks(zc) :
        Dot(xc.parity_check_matrix.rows[i], zc.parity_check_matrix.rows[j]) = 0

\* C2: try_new returns Err(DifferentXandZLength(x_len, z_len)) when the block
\* sizes differ, otherwise Err(NonOrthogonalCodes) when Hx Hz^T is not zero,
\* otherwise Ok; it never panics, and the logical operators are computed only
\* for inputs passing both tests.
C2_TryNewErrors ==
    LET x_len == block_size(x_code)
        z_len == block_size(z_code)
    IN  /\ lg # NoLogicals => (x_len = z_len /\ Orthogonal(x_code, z_code))
        /\ pc = "returned" =>
               /\ result.tag # "Panic"
               /\ x_len # z_len => result = DifferentXandZLength(x_len, z_len)
               /\ (x_len = z_len /\ ~Orthogonal(x_code, z_code)) =>
                      result = NonOrthogonalCodes
               /\ (x_len = z_len /\ Orthogonal(x_code, z_code)) => result.tag = "Ok"
               /\ result.tag = "Err" => lg = NoLogicals

\* try_new has returned the length error for two codes that both have
\* checks, so that the product of their matrices is not defined.
C2_Witness ==
    /\ pc = "returned"
    /\ result = DifferentXandZLength(2, 3)
    /\ number_of_checks(x_code) > 0
    /\ number_of_checks(z_code) > 0
    /\ lg = NoLogicals

C4_LogicalsCanonicallyPaired ==
    result.tag = "Ok" =>
        LET logicals == result.value.logicals
        IN  MatMul(logicals.x, Transposed(logicals.z))
                = Identity(number_of_rows(logicals.x))

\* A CssCode with at least two logical pairs and a non zero stabilizer.
C4_Witness ==
    /\ result.tag = "Ok"
    /\ number_of_rows(result.value.logicals.x) >= 2
    /\ ~IsZeroMat(result.value.stabilizers.z)

\* The bits flipped by the flip decoder on the Hamming code when bit p of a
\* codeword was flipped: only the bits 0, 1 and 3, each adjacent to one check.
HammingFlips(p) ==
    CASE p = 0 -> {0}
      [] p = 1 -> {1}
      [] p = 2 -> {0, 1}
      [] p = 3 -> {3}
      [] p = 4 -> {0, 3}
      [] p = 5 -> {1, 3}
      [] p = 6 -> {0, 1, 3}

\* The message of the call in progress is a codeword with bit p flipped.
SingleError(p) == has_codeword(code, SparseBinVec(message.len, SymDiff(message.ones, {p})))

\* C5 as stated: on the Hamming code the flip decoder returns the codeword c
\* when given c with one bit flipped.
C5_FlipRecoversCodeword ==
    (fpc = "returned" /\ code = hamming_code) =>
        \A p \in 0..6 : SingleError(p) => output.ones = SymDiff(message.ones, {p})

\* C5 amended: on the Hamming code, given a codeword c with bit p flipped,
\* the flip decoder returns a codeword, which is the message with the bits
\* HammingFlips(p) flipped: it is c exactly when p is 0, 1 or 3.
C5_FlipReturnsSomeCodeword ==
    (fpc = "returned" /\ code = hamming_code) =>
        \A p \in 0..6 : SingleError(p) =>
            /\ has_codeword(code, output)
            /\ output.ones = SymDiff(message.ones, HammingFlips(p))
            /\ (output.ones = SymDiff(message.ones, {p})) <=> (p \in {0, 1, 3})

\* The test flipping_third_bit_for_hamming_code: codeword {3,4,5,6} with bit
\* 2 flipped is decoded to the all-ones codeword.
C5_Witness ==
    /\ fpc = "returned"
    /\ code = hamming_code
    /\ message.ones = {2, 3, 4, 5, 6}
    /\ output.ones = 0..6

\* C6: for a message with a zero syndrome the flip decoder flips no bit and
\* returns the message, also when some bit is adjacent to no check.
C6_FlipKeepsCodewords ==
    (fpc \in {"loop", "returned"} /\ has_codeword(code, message)) =>
        /\ output = message
        /\ IsZeroVec(syndrome)
        /\ find_flippable(code, syndrome) = -1

\* A non zero codeword of a code with a bit adjacent to no check was
\* returned unchanged.
C6_Witness ==
    /\ fpc = "returned"
    /\ has_codeword(code, message)
    /\ message.ones # {}
    /\ \E b \in message.ones : code.bit_adjacencies.rows[b + 1] = {}
    /\ \E b \in 0..(block_size(code) - 1) : code.bit_adjacencies.rows[b + 1] # {}
    /\ output = message

-----------------------------------------------------------------------------
(* BpDecoder::correction_for.                                              *)

\* The syndrome of the correction of st is the target syndrome.
Matches(st) == MatVec(decoder.parity_mat, BpState_decode(st)) = state.syndrome

\* C7: correction_for tests its stopping condition before each iteration,
\* starting with the initial messages.  The call starts from the initial
\* messages with no iteration done; an iteration is run only from a state
\* whose correction does not have the target syndrome and that has run fewer
\* than num_iterations iterations, and it is one more iteration of that
\* state; the call returns only from a state whose correction has the target
\* syndrome, hence the first one, or from the state after exactly
\* num_iterations iterations, and it returns the correction of that state,
\* a vector on the bits of the code.
C7_StopsAtFirstMatchOrCap ==
    [][ /\ bpc = "idle" /\ bpc' = "loop" =>
            /\ state'.num_iterations = 0
            /\ state'.messages.bits =
                   [e \in non_trivial_elements(decoder.parity_mat) |-> decoder.likelyhoods[e[2] + 1]]
            /\ state'.messages.checks =
                   [e \in non_trivial_elements(decoder.parity_mat) |-> Zero]
        /\ bpc = "loop" /\ bpc' = "loop" =>
            /\ ~Matches(state)
            /\ state.num_iterations < decoder.num_iterations
            /\ state'.num_iterations = state.num_iterations + 1
            /\ state' = update_once(state)
        /\ bpc = "loop" /\ bpc' = "returned" =>
            /\ Matches(state) \/ state.num_iterations = decoder.num_iterations
            /\ state.num_iterations <= decoder.num_iterations
            /\ state' = state
            /\ MatVec(decoder.parity_mat, correction') = state.syndrome
                   <=> Matches(state)
            /\ correction' = BpState_decode(state)
            /\ correction'.len = decoder.parity_mat.number_of_columns
            /\ correction'.ones \subseteq 0..(correction'.len - 1)
        /\ bpc = "loop" => bpc' \in {"loop", "returned"}
        /\ bpc = "returned" => bpc' = "returned"
      ]_vars

\* The cap is reached after at least two iterations and neither that state
\* nor an earlier one has a correction with the target syndrome.
C7_Witness ==
    /\ bpc = "returned"
    /\ decoder.num_iterations >= 2
    /\ state.num_iterations = decoder.num_iterations
    /\ ~Matches(state)

AtMostHalf(p) == 2 * p[1] <= p[2]

\* C9 as stated: for the zero syndrome correction_for returns the zero
\* correction, whatever the matrix, the probability and the cap.
C9_ZeroSyndromeZeroCorrection ==
    bpc = "returned" /\ IsZeroVec(state.syndrome) => IsZeroVec(correction)

\* C9 amended: for the zero syndrome and a probability of at most 1/2
\* correction_for returns the zero correction without iterating, and decode
\* returns every codeword unchanged, whatever the matrix and the cap.
C9_ZeroSyndromeZeroCorrectionUpToHalf ==
    bpc = "returned" /\ IsZeroVec(state.syndrome) /\ AtMostHalf(probability) =>
        /\ IsZeroVec(correction)
        /\ state.num_iterations = 0
        /\ \A c \in Words(decoder.parity_mat.number_of_columns) :
               IsZeroVec(MatVec(decoder.parity_mat, c)) => BpDecoder_decode(decoder, c) = c

\* A zero syndrome is decoded at probability 1/3 with two bits on a check.
C9_Witness ==
    /\ bpc = "returned"
    /\ IsZeroVec(state.syndrome)
    /\ probability = <<1, 3>>
    /\ decoder.num_iterations > 0
    /\ \E i \in 1..number_of_rows(decoder.parity_mat) :
           Cardinality(decoder.parity_mat.rows[i]) = 2
    /\ IsZeroVec(correction)

-----------------------------------------------------------------------------
(* CssDecoder::correction_for.                                             *)

\* The correction of the decoder of a slot for the syndrome of that slot.
SlotCorrection(slot) ==
    IF slot = "x" THEN BpDecoder_correction_for(css_decoder.x, css_syndrome.x)
    ELSE BpDecoder_correction_for(css_decoder.z, css_syndrome.z)

\* The Pauli operator with X on the positions of x only, Z on the positions
\* of z only and Y on the positions of both.
OperatorOf(operator) ==
    [ len |-> operator.x.len,
      paulis |-> [i \in operator.x.ones \cup operator.z.ones |->
                     IF i \in operator.x.ones /\ i \in operator.z.ones THEN "Y"
                     ELSE IF i \in operator.x.ones THEN "X" ELSE "Z"] ]

\* The corrections cx of the x slot and cz of the z slot have the syndromes
\* given to their decoders.
BothReproduce(cx, cz) ==
    /\ MatVec(css_decoder.x.parity_mat, cx) = css_syndrome.x
    /\ MatVec(css_decoder.z.parity_mat, cz) = css_syndrome.z

\* C10: CssDecoder::correction_for crosses the axes: the z part of the result
\* is the correction of the x slot decoder for the x part of the syndrome and
\* the x part is the correction of the z slot decoder for the z part.  When
\* both decoders reproduce their syndrome, Hx * correction.z = syndrome.x and
\* Hz * correction.x = syndrome.z, and CssCode::syndrome_of of the Pauli
\* operator with the X and Z parts of the correction is the input syndrome.
C10_CssDecoderCrossesAxes ==
    dpc = "returned" =>
        \A cx \in {SlotCorrection("x")}, cz \in {SlotCorrection("z")} :
            /\ css_correction.z = cx
            /\ css_correction.x = cz
            /\ BothReproduce(cx, cz) =>
                   /\ MatVec(css_decoder.x.parity_mat, css_correction.z) = css_syndrome.x
                   /\ MatVec(css_decoder.z.parity_mat, css_correction.x) = css_syndrome.z
                   /\ CssOperator_from(OperatorOf(css_correction)) = css_correction
                   /\ CssCode_syndrome_of(Css(css_decoder.x.parity_mat, css_decoder.z.parity_mat),
                                          OperatorOf(css_correction)) = css_syndrome

\* Both parts of the syndrome are non trivial, both decoders reproduce them
\* and the two parts of the correction differ.
C10_Witness ==
    /\ dpc = "returned"
    /\ ~IsZeroVec(css_syndrome.x)
    /\ ~IsZeroVec(css_syndrome.z)
    /\ BothReproduce(SlotCorrection("x"), SlotCorrection("z"))
    /\ css_correction.x # css_correction.z

\* The number of independent logical classes reached by the errors of one
\* axis supported on the erasure that no stabilizer detects: the rank of
\* [S | L] minus the rank of S.
BadErrors(erasure, stabs, logicals) ==
    LET undetected == {e \in SUBSET erasure.ones :
                          IsZeroVec(MatVec(stabs, SparseBinVec(erasure.len, e)))}
        classes == {MatVec(logicals, SparseBinVec(erasure.len, e)).ones : e \in undetected}
    IN  CHOOSE b \in 0..erasure.len : 2 ^ b = Cardinality(classes)

ShorErasure(ones) ==
    /\ receiver.code = shor_code
    /\ argument = SparseBinVec(9, ones)

\* C11: recovery_probability(erasure) is 2^-(bx + bz), bx counting the bad X
\* errors (against the Z stabilizers and Z logicals) and bz the bad Z errors
\* (against the X stabilizers and X logicals); on the Shor code the erasure
\* {0,4,8} has probability 1/2, {0,1,3,4} and the empty erasure probability 1.
C11_RecoveryProbability ==
    qpc = "returned" =>
        /\ returned =
              [value |->
                  <<1, 2 ^ (BadErrors(argument, receiver.code.stabilizers.z,
                                      receiver.code.logicals.z)
                            + BadErrors(argument, receiver.code.stabilizers.x,
                                        receiver.code.logicals.x))>>]
        /\ ShorErasure({0, 4, 8}) =>
              /\ BadErrors(argument, shor_code.stabilizers.z, shor_code.logicals.z) = 0
              /\ BadErrors(argument, shor_code.stabilizers.x, shor_code.logicals.x) = 1
              /\ returned = [value |-> <<1, 2>>]
        /\ ShorErasure({0, 1, 3, 4}) => returned = [value |-> <<1, 1>>]
        /\ ShorErasure({}) => returned = [value |-> <<1, 1>>]

\* The same statement for the codes with no more stabilizer generators of
\* either kind than qubits.
C11_RecoveryProbabilityFewChecks ==
    (/\ qpc = "returned"
     /\ number_of_rows(receiver.code.stabilizers.x) <= CssCode_len(receiver.code)
     /\ number_of_rows(receiver.code.stabilizers.z) <= CssCode_len(receiver.code))
        => C11_RecoveryProbability

\* The probability of a Shor code erasure with one bad error was returned.
C11_Witness ==
    /\ qpc = "returned"
    /\ ShorErasure({0, 4, 8})
    /\ returned = [value |-> <<1, 2>>]

\* A code with more X stabilizer generators than qubits was asked.
C11_PanicWitness ==
    /\ qpc = "returned"
    /\ IsPanic(returned)

\* The codewords of a code: the words of its block size every check accepts.
Codewords(c) == {w \in Words(block_size(c)) : IsZeroVec(MatVec(c.parity_check_matrix, w))}

\* C12: has_same_codespace_as answers true exactly when the two codes have
\* the same block size and the same codewords, whichever is the receiver.
C12_SameCodespace ==
    qpc = "has_same_codespace_as" =>
        returned.value = (/\ block_size(receiver) = block_size(argument)
                          /\ Codewords(receiver) = Codewords(argument))

\* What the method computes: the codewords of the argument are codewords of
\* the receiver.
C12_CodespaceIncluded ==
    qpc = "has_same_codespace_as" =>
        returned.value = (/\ block_size(receiver) = block_size(argument)
                          /\ Codewords(argument) \subseteq Codewords(receiver))

\* The receiver has a codeword the argument has not and the answer is true.
C12_Witness ==
    /\ qpc = "has_same_codespace_as"
    /\ returned.value
    /\ Codewords(receiver) # Codewords(argument)

\* The product H * msg computed row by row: the checks with an odd number of
\* positions in the message.
ParityProduct(c, msg) ==
    SparseBinVec(Len(c.parity_check_matrix.rows),
        {i - 1 : i \in {i \in 1..Len(c.parity_check_matrix.rows) :
                           Cardinality(c.parity_check_matrix.rows[i] \cap msg.ones) % 2 = 1}})

\* C13: syndrome_of panics when the length of the message is not the block
\* size and returns H * message otherwise; has_codeword is true exactly when
\* that syndrome is zero.
C13_SyndromeOfPanicsOnLength ==
    /\ qpc = "syndrome_of" =>
           IF argument.len # receiver.parity_check_matrix.number_of_columns
           THEN IsPanic(returned)
           ELSE returned = ParityProduct(receiver, argument)
    /\ qpc = "has_codeword" =>
           IF argument.len # receiver.parity_check_matrix.number_of_columns
           THEN IsPanic(returned)
           ELSE returned.value = (ParityProduct(receiver, argument).ones = {})

\* syndrome_of was given a message shorter than the block size of a code
\* with a check.
C13_Witness ==
    /\ qpc = "syndrome_of"
    /\ argument.len < block_size(receiver)
    /\ number_of_checks(receiver) > 0
    /\ IsPanic(returned)

\* The weights of the non zero codewords of a code.
CodewordWeights(c) == {Cardinality(w.ones) : w \in Codewords(c)} \ {0}

\* C17: minimal_distance returns Some(w), w the smallest weight of a non zero
\* codeword, and None when the code has no non zero codeword; the 3 bit
\* repetition code built from either matrix has distance 3.
C17_MinimalDistance ==
    /\ qpc = "minimal_distance" =>
           IF CodewordWeights(receiver) = {}
           THEN returned = None
           ELSE /\ returned = Some(Min(CodewordWeights(receiver)))
                /\ \E chosen \in (SUBSET (1..number_of_generators(receiver))) \ {{}} :
                       Cardinality(SumOfGenerators(receiver, chosen)) = returned.value
    /\ (/\ qpc = "minimal_distance"
        /\ receiver \in {from_parity_check_matrix(SparseBinMat(3, <<{0, 1}, {1, 2}>>)),
                         from_generator_matrix(SparseBinMat(3, <<{0, 1, 2}>>))})
           => returned = Some(3)

\* The distance of the repetition code built from its generator matrix was
\* asked.
C17_Witness ==
    /\ qpc = "minimal_distance"
    /\ receiver = from_generator_matrix(SparseBinMat(3, <<{0, 1, 2}>>))
    /\ returned = Some(3)

\* The checks of a matrix with an odd number of positions in the set.
OddRows(M, positions) ==
    {i - 1 : i \in {i \in 1..Len(M.rows) : Cardinality(M.rows[i] \cap positions) % 2 = 1}}

\* The positions where the operator has an X or a Y, and a Z or a Y.
XPositions(operator) ==
    {i \in 0..(operator.len - 1) :
        i \in DOMAIN operator.paulis /\ operator.paulis[i] # "Z"}

ZPositions(operator) ==
    {i \in 0..(operator.len - 1) :
        i \in DOMAIN operator.paulis /\ operator.paulis[i] # "X"}

\* C14: CssCode::syndrome_of returns as x the product of the X stabilizers
\* with the Z part of the operator and as z the product of the Z stabilizers
\* with its X part, a Y counting in both; on the Shor code X on qubit 1 and Z
\* on qubit 7 give x = {1} and z = {0, 1}.
C14_SyndromeCrossesParts ==
    qpc = "syndrome_of" =>
        /\ returned.x = SparseBinVec(Len(receiver.stabilizers.x.rows),
                            OddRows(receiver.stabilizers.x, ZPositions(argument)))
        /\ returned.z = SparseBinVec(Len(receiver.stabilizers.z.rows),
                            OddRows(receiver.stabilizers.z, XPositions(argument)))
        /\ (/\ receiver = shor_code
            /\ argument = PauliOperator(9, (1 :> "X") @@ (7 :> "Z")))
               => returned = Css(SparseBinVec(2, {1}), SparseBinVec(6, {0, 1}))

\* The syndrome of X on qubit 1 and Z on qubit 7 of the Shor code was asked.
C14_Witness ==
    /\ qpc = "syndrome_of"
    /\ receiver = shor_code
    /\ argument = PauliOperator(9, (1 :> "X") @@ (7 :> "Z"))
    /\ returned = Css(SparseBinVec(2, {1}), SparseBinVec(6, {0, 1}))

\* The set of positions is a sum of rows of the matrix over GF(2).
InRowSpan(M, positions) ==
    \E chosen \in SUBSET (1..Len(M.rows)) :
        positions = {p \in 0..(M.number_of_columns - 1) :
                        Cardinality({i \in chosen : p \in M.rows[i]}) % 2 = 1}

\* The operator is, up to a phase, a product of stabilizer generators.
StabilizerProduct(c, operator) ==
    /\ InRowSpan(c.stabilizers.x, XPositions(operator))
    /\ InRowSpan(c.stabilizers.z, ZPositions(operator))

\* The operator commutes with every stabilizer generator.
TrivialSyndrome(c, operator) ==
    /\ OddRows(c.stabilizers.x, ZPositions(operator)) = {}
    /\ OddRows(c.stabilizers.z, XPositions(operator)) = {}

\* The operator is one of the generators returned by CssCode::logicals.
LogicalGenerator(c, operator) ==
    \/ /\ ZPositions(operator) = {}
       /\ \E i \in 1..Len(c.logicals.x.rows) : XPositions(operator) = c.logicals.x.rows[i]
    \/ /\ XPositions(operator) = {}
       /\ \E i \in 1..Len(c.logicals.z.rows) : ZPositions(operator) = c.logicals.z.rows[i]

\* C15: has_stabilizer is true exactly when the X part of the operator is a
\* sum of X stabilizer rows and its Z part a sum of Z stabilizer rows; an
\* operator with a trivial syndrome that is no such product, as is every
\* logical generator, satisfies has_logical and not has_stabilizer.
C15_StabilizersAreRowSums ==
    /\ qpc = "has_stabilizer" =>
           /\ returned.value = StabilizerProduct(receiver, argument)
           /\ LogicalGenerator(receiver, argument) => ~returned.value
    /\ qpc = "has_logical" =>
           /\ returned.value = TrivialSyndrome(receiver, argument)
           /\ LogicalGenerator(receiver, argument) => returned.value

\* has_stabilizer was asked about the product of an X and a Z stabilizer
\* generator of the Shor code.
C15_Witness ==
    /\ qpc = "has_stabilizer"
    /\ receiver = shor_code
    /\ argument = PauliFromParts(9, {0, 1, 2, 3, 4, 5}, {4, 5})
    /\ returned.value

\* The X check (i, j) of the product of the matrices A and B holds the qubit
\* (a, b) of the first block when a = i and b is in the check j of B, and
\* the qubit (c, d) of the second block when i is in the check c of A and
\* d = j.
ProductXChecks(A, B) ==
    [k \in 1..(A.number_of_columns * Len(B.rows)) |->
        LET i == (k - 1) \div Len(B.rows)
            j == (k - 1) % Len(B.rows)
        IN  {a * B.number_of_columns + b :
                <<a, b>> \in {q \in (0..(A.number_of_columns - 1))
                                      \X (0..(B.number_of_columns - 1)) :
                                 q[1] = i /\ q[2] \in B.rows[j + 1]}}
            \cup {A.number_of_columns * B.number_of_columns + c * Len(B.rows) + d :
                     <<c, d>> \in {q \in (0..(Len(A.rows) - 1)) \X (0..(Len(B.rows) - 1)) :
                                      i \in A.rows[q[1] + 1] /\ q[2] = j}}]

\* The Z check (c, b) holds the qubit (a, b) of the first block when a is in
\* the check c of A, and the qubit (c, d) of the second block when b is in
\* the check d of B.
ProductZChecks(A, B) ==
    [k \in 1..(Len(A.rows) * B.number_of_columns) |->
        LET c == (k - 1) \div B.number_of_columns
            b == (k - 1) % B.number_of_columns
        IN  {q[1] * B.number_of_columns + q[2] :
                q \in {q \in (0..(A.number_of_columns - 1))
                               \X (0..(B.number_of_columns - 1)) :
                          q[1] \in A.rows[c + 1] /\ q[2] = b}}
            \cup {A.number_of_columns * B.number_of_columns + q[1] * Len(B.rows) + q[2] :
                     q \in {q \in (0..(Len(A.rows) - 1)) \X (0..(Len(B.rows) - 1)) :
                               q[1] = c /\ b \in B.rows[q[2] + 1]}}]

\* The stabilizers of the product of the 3 bit repetition code with itself.
SurfaceCodeStabilizers ==
    Css(SparseBinMat(13, <<{0, 1, 9}, {1, 2, 10}, {3, 4, 9, 11},
                           {4, 5, 10, 12}, {6, 7, 11}, {7, 8, 12}>>),
        SparseBinMat(13, <<{0, 3, 9}, {1, 4, 9, 10}, {2, 5, 10},
                           {3, 6, 11}, {4, 7, 11, 12}, {5, 8, 12}>>))

C18_FlipReturnsACodeword ==
    /\ []((fpc = "returned" /\ code = hamming_code) =>
            /\ IsZeroVec(MatVec(code.parity_check_matrix, output))
            /\ message.ones = {4, 6} => output.ones = {1, 4, 6}
            /\ message.ones = {2, 3, 4, 5, 6} => output.ones = 0..6)
    /\ [][(code = hamming_code /\ fpc = "loop" /\ fpc' = "loop") =>
            Cardinality(syndrome'.ones) < Cardinality(syndrome.ones)]_vars

\* The word {4,6} was decoded on the Hamming code to {1,4,6}, at distance 3
\* of the codeword {0,2,4,6} it is at distance 2 of.
C18_Witness ==
    /\ fpc = "returned"
    /\ code = hamming_code
    /\ message.ones = {4, 6}
    /\ output.ones = {1, 4, 6}

\* The value a call returns when it is the only one on the decoder.
AloneResult(shared, input) ==
    CASE shared.kind = "flip" -> FlipDecoder_decode(shared.decoder, input)
      [] shared.kind = "bp" -> BpDecoder_correction_for(shared.decoder, input)
      [] shared.kind = "css" -> CssDecoder_correction_for(shared.decoder, input)

\* C19: no decoding call changes the decoder or its code, and the value a
\* call returns is the one it returns when alone on the decoder, whatever
\* calls ran before it or are interleaved with it.
C19_CallsAreIndependent ==
    /\ [][qpc = "shared" => receiver' = receiver]_vars
    /\ [](qpc = "shared" =>
            \A i \in 1..Calls :
                calls[i].pc = "returned" =>
                    calls[i].output = AloneResult(receiver, calls[i].input))

\* A call returned a non zero correction while another call on the same
\* decoder, begun on another input, was inside its loop.
C19_Witness ==
    /\ qpc = "shared"
    /\ receiver.kind = "bp"
    /\ calls[1].pc = "returned"
    /\ calls[1].output.ones # {}
    /\ calls[2].pc = "loop"
    /\ calls[2].input # calls[1].input
    /\ calls[2].locals.num_iterations > 0

\* The product, over the other bits of the check of the edge e, of the tanh
\* of the halves of their messages to the check.
OtherBitsProduct(bits, e) ==
    LET others == SortedSeq({f[2] : f \in {g \in DOMAIN bits : g[1] = e[1] /\ g[2] # e[2]}})
    IN  RatProduct(<<1, 1>>, [i \in 1..Len(others) |-> half_tanh(bits[<<e[1], others[i]>>])])

\* The check to bit message of the edge e as the belief propagation rule
\* gives it from the bit to check messages.
ExpectedCheckToBit(bits, syn, e) ==
    LET value == two_atanh(OtherBitsProduct(bits, e))
    IN  IF e[1] \in syn.ones THEN LlrNeg(value) ELSE value

\* The bit to check message of the edge e as the belief propagation rule
\* gives it from the check to bit messages: the prior of the bit plus the
\* messages of its other checks.
ExpectedBitToCheck(checks, likelyhoods, e) ==
    LET others == SortedSeq({f[1] : f \in {g \in DOMAIN checks : g[2] = e[2] /\ g[1] # e[1]}})
    IN  LlrSum(likelyhoods[e[2] + 1], [i \in 1..Len(others) |-> checks[<<others[i], e[2]>>]])

\* The step is one iteration of belief propagation.
IsIteration == bpc = "loop" /\ bpc' = "loop" /\ state' # state

\* The Tanner graph of the decoder has a check of degree 1 or 2.
Degree(e) == Cardinality({f \in DOMAIN state.messages.bits : f[1] = e[1]})

\* The messages of the edge e after the iteration are the ones of the rule.
FollowsRule(e) ==
    /\ state'.messages.checks[e]
           = ExpectedCheckToBit(state.messages.bits, state.syndrome, e)
    /\ state'.messages.bits[e]
           = ExpectedBitToCheck(state'.messages.checks, state.likelyhoods, e)
    /\ Degree(e) = 2 =>
           \E f \in DOMAIN state.messages.bits :
               /\ f[1] = e[1]
               /\ f[2] # e[2]
               /\ state'.messages.checks[e]
                      = IF e[1] \in state.syndrome.ones
                        THEN LlrNeg(state.messages.bits[f])
                        ELSE state.messages.bits[f]

\* C20: one iteration gives on every edge (b, c) the check to bit message
\* 2 atanh of the product over the other bits of c of the tanh of the halves
\* of their messages, negated iff the syndrome bit of c is 1, then the bit
\* to check message prior(b) plus the sum of the messages of the other
\* checks of b; on a check of degree 2 the message to one bit is the
\* message from the other bit up to that sign.
C20_MessagesFollowTheRule ==
    [][IsIteration => \A e \in DOMAIN state.messages.bits : FollowsRule(e)]_vars

\* The division by the tanh of the own message and the subtraction of the
\* own message give the value of the rule: the message of the bit is
\* neither 0.0 nor NaN, and the new message of the check is finite.
Divides(e) ==
    /\ state.messages.bits[e] \notin {Zero, NaN}
    /\ state'.messages.checks[e] \notin {NaN, <<1, 0>>, <<0, 1>>}

\* The rule is followed on the edges where the own message can be taken
\* out of the product and of the sum.
C20_MessagesFollowTheRuleWhereFinite ==
    [][IsIteration =>
          \A e \in DOMAIN state.messages.bits : Divides(e) => FollowsRule(e)]_vars

\* An iteration ended with messages following the rule on a graph with a
\* bit of two checks and a check of two bits, on a non zero syndrome.
C20_Witness ==
    /\ bpc = "loop"
    /\ state.num_iterations = 1
    /\ state.syndrome.ones # {}
    /\ Cardinality(DOMAIN state.messages.bits) >= 3
    /\ \A e \in DOMAIN state.messages.bits :
           /\ state.messages.bits[e] \notin {NaN, <<1, 0>>, <<0, 1>>}
           /\ state.messages.checks[e]
                  = ExpectedCheckToBit(initialize_bits(decoder), state.syndrome, e)
           /\ state.messages.bits[e]
                  = ExpectedBitToCheck(state.messages.checks, state.likelyhoods, e)

\* An iteration left NaN in a bit to check message where the rule gives a
\* finite value: the check of the edge has a single bit.
C20_NaNWitness ==
    /\ bpc = "loop"
    /\ state.num_iterations = 1
    /\ probability = <<1, 3>>
    /\ \E e \in DOMAIN state.messages.bits :
           /\ state.messages.bits[e] = NaN
           /\ ExpectedBitToCheck(state.messages.checks, state.likelyhoods, e)
                  \notin {NaN, <<1, 0>>, <<0, 1>>}

\* C23: at the head of every iteration of the loop of FlipDecoder::decode
\* and on return, the syndrome kept by the additions of the loop is the
\* syndrome of the current output computed from the parity check matrix.
C23_SyndromeIsSyndromeOfOutput ==
    fpc \in {"loop", "returned"} =>
        syndrome = MatVec(code.parity_check_matrix, output)

\* A call returned after at least two flips, with every check satisfied.
C23_Witness ==
    /\ fpc = "returned"
    /\ Cardinality(SymDiff(output.ones, message.ones)) >= 2
    /\ syndrome.ones = {}

\* The checks of the bit that the current output does not satisfy.
UnsatisfiedChecks(bit) ==
    {check \in 1..Len(code.parity_check_matrix.rows) :
        /\ bit \in code.parity_check_matrix.rows[check]
        /\ Cardinality(code.parity_check_matrix.rows[check] \cap output.ones) % 2 = 1}

\* The checks the bit is in.
ChecksOf(bit) ==
    {check \in 1..Len(code.parity_check_matrix.rows) :
        bit \in code.parity_check_matrix.rows[check]}

\* More than half (integer division) of the checks of the bit are
\* unsatisfied.
MajorityUnsatisfied(bit) ==
    Cardinality(UnsatisfiedChecks(bit)) > Cardinality(ChecksOf(bit)) \div 2

\* C26: an iteration of FlipDecoder::decode flips the bit of lowest index
\* with more unsatisfied checks than half its degree (integer division) and
\* no other bit, and decode returns only when no bit is in that case; the
\* word returned can have a non zero syndrome (C26_Witness).
C26_FlipsFirstMajorityBit ==
    /\ [][(fpc = "loop" /\ fpc' = "loop") =>
            \E bit \in 0..(block_size(code) - 1) :
                /\ MajorityUnsatisfied(bit)
                /\ \A lower \in 0..(bit - 1) : ~MajorityUnsatisfied(lower)
                /\ output'.ones = SymDiff(output.ones, {bit})]_vars
    /\ [][(fpc = "loop" /\ fpc' = "returned") =>
            /\ \A bit \in 0..(block_size(code) - 1) : ~MajorityUnsatisfied(bit)
            /\ output' = output]_vars

\* A call returned after a flip with a check still unsatisfied, while a
\* bit of the returned word is in an unsatisfied check.
C26_Witness ==
    /\ fpc = "returned"
    /\ output # message
    /\ MatVec(code.parity_check_matrix, output).ones # {}
    /\ \E bit \in 0..(block_size(code) - 1) : UnsatisfiedChecks(bit) # {}

\* The loop of FlipDecoder::decode, entered with the syndrome syn, ends
\* after at most flips iterations.
RECURSIVE ReturnsWithin(_, _, _)
ReturnsWithin(c, syn, flips) ==
    \/ find_flippable(c, syn) = -1
    \/ /\ flips > 0
       /\ ReturnsWithin(c,
              VecAdd(syn, syndrome_of(c, SparseBinVec(block_size(c), {find_flippable(c, syn)}))),
              flips - 1)

\* C24: FlipDecoder::decode returns on every message and every parity check
\* matrix: every flip lowers the number of unsatisfied checks, so that the
\* loop never comes back to a syndrome and makes at most as many flips as
\* the syndrome of the message has ones.
C24_FlipDecoderTerminates ==
    /\ [][(fpc = "loop" /\ fpc' = "loop") =>
            Cardinality(syndrome'.ones) < Cardinality(syndrome.ones)]_vars
    /\ [](fpc = "loop" => ReturnsWithin(code, syndrome, Cardinality(syndrome.ones)))
    /\ (fpc = "loop" ~> fpc = "returned")

\* A call on a code with more checks than bits returned after as many
\* flips as the syndrome of the message has ones, a bit being flipped twice.
C24_Witness ==
    /\ fpc = "returned"
    /\ number_of_checks(code) > block_size(code)
    /\ Cardinality(syndrome_of(code, message).ones) = 3
    /\ ~ReturnsWithin(code, syndrome_of(code, message), 2)
    /\ syndrome.ones = {}

\* C25 as stated: FlipDecoder::decode makes at most block_size flips.
C25_AtMostBlockSizeFlips ==
    [][(fpc = "idle" /\ fpc' = "loop") =>
          ReturnsWithin(code, syndrome', block_size(code))]_vars

\* C25 amended: FlipDecoder::decode makes at most as many flips as the code
\* has checks, so at most block_size flips when the parity check matrix has
\* no more rows than columns.
C25_AtMostNumberOfChecksFlips ==
    [][(fpc = "idle" /\ fpc' = "loop") =>
          /\ ReturnsWithin(code, syndrome', number_of_checks(code))
          /\ number_of_checks(code) <= block_size(code) =>
                 ReturnsWithin(code, syndrome', block_size(code))]_vars

\* The message {1} of 2 bits with the checks {1}, {1}, {0,1} was decoded to
\* the zero word: bit 0, bit 1 and bit 0 again were flipped.
C25_Witness ==
    /\ fpc = "returned"
    /\ code.parity_check_matrix = SparseBinMat(2, <<{1}, {1}, {0, 1}>>)
    /\ message.ones = {1}
    /\ output.ones = {}
    /\ ~ReturnsWithin(code, syndrome_of(code, message), block_size(code))

\* The number of ones of a matrix.
NumberOfOnes(M) ==
    Cardinality({<<check, bit>> \in (1..Len(M.rows)) \X (0..(M.number_of_columns - 1)) :
                    bit \in M.rows[check]})

C22_ErrWitness ==
    /\ qpc = "sample_with"
    /\ returned = [tag |-> "Err",
                   error |-> [block_size |-> 3, number_of_checks |-> 2,
                              bit_degree |-> 1, check_degree |-> 2]]

\* C27: in an iteration of belief propagation the messages of the checks
\* are computed from the messages of the bits of the iteration before and
\* from nothing else, and the messages of the bits from the new messages of
\* the checks and from nothing else: the old messages of the checks and the
\* old or new messages of the bits can be replaced by any others without
\* changing the result.
C27_IterationsAreSynchronous ==
    [][IsIteration =>
          /\ state'.messages.checks
                 = update_checks([bits |-> state.messages.bits,
                                  checks |-> initialize_checks(decoder)],
                                 state.syndrome).checks
          /\ state'.messages.bits
                 = update_bits([bits |-> initialize_bits(decoder),
                                checks |-> state'.messages.checks],
                               state.likelyhoods).bits
          /\ state'.num_iterations = state.num_iterations + 1]_vars

\* An iteration ended with no NaN in its messages, and the messages of
\* the checks would have been others had they been computed from the new
\* messages of the bits.
C27_Witness ==
    /\ bpc = "loop"
    /\ state.num_iterations >= 1
    /\ \A e \in DOMAIN state.messages.bits :
           state.messages.bits[e] # NaN /\ state.messages.checks[e] # NaN
    /\ update_checks(state.messages, state.syndrome).checks # state.messages.checks

\* The step is an iteration of Logicals::compute that pushes no logical
\* pair: the popped X candidate is dropped.
IsDiscard ==
    /\ pc = "compute"
    /\ pc' = "compute"
    /\ lg' # lg
    /\ Len(lg'.x_logicals) = Len(lg.x_logicals)

\* C28: an X candidate that from_linear_codes pops and drops, no Z candidate
\* of the pool anticommuting with it, is a sum of rows of the parity check
\* matrix of x_code; a candidate that is not such a sum is never dropped.
C28_DiscardedCandidatesAreTrivial ==
    [][IsDiscard =>
          /\ \A i \in 1..Len(lg.raw_z_generators) :
                 ~anticommute(lg.raw_x_generators[Len(lg.raw_x_generators)],
                              lg.raw_z_generators[i])
          /\ InRowSpan(x_code.parity_check_matrix,
                       lg.raw_x_generators[Len(lg.raw_x_generators)])]_vars

\* A candidate was dropped after a logical pair was pushed, on a code with
\* X stabilizers.
C28_Witness ==
    /\ pc = "compute"
    /\ Len(lg.x_logicals) >= 1
    /\ Len(to_generator_vec(z_code)) - Len(lg.raw_x_generators) > Len(lg.x_logicals)
    /\ ~IsZeroMat(x_code.parity_check_matrix)

\* x_code and z_code are the codes toric_code(3) gives to CssCode::new.
IsToricCode ==
    /\ block_size(x_code) = 18
    /\ x_code.parity_check_matrix
           = hypergraph_product_x_checks(toric_code_checks(3), toric_code_checks(3))
    /\ z_code.parity_check_matrix
           = hypergraph_product_z_checks(toric_code_checks(3), toric_code_checks(3))

\* C29: every iteration of from_linear_codes takes one candidate out of the
\* X pool and the loop ends when the pool is empty, so that it makes as many
\* iterations as the pool first holds candidates; the two matrices returned
\* have the same number of rows, n - rank(Hx) - rank(Hz), which is 1 for
\* the Steane code, 1 for the Shor code and 2 for the toric code of
\* distance 3.
C29_NumberOfLogicals ==
    /\ [][(pc = "compute" /\ pc' = "compute") =>
            Len(lg'.raw_x_generators) = Len(lg.raw_x_generators) - 1]_vars
    /\ [][(pc = "compute" /\ pc' = "returned") => Len(lg.raw_x_generators) = 0]_vars
    /\ [](result.tag = "Ok" =>
            LET logicals == result.value.logicals
                pairs == block_size(x_code) - Rank(x_code.parity_check_matrix)
                             - Rank(z_code.parity_check_matrix)
            IN  /\ number_of_rows(logicals.x) = pairs
                /\ number_of_rows(logicals.z) = pairs
                /\ (x_code = hamming_code /\ z_code = hamming_code) => pairs = 1
                /\ (block_size(x_code) = 9 /\ number_of_checks(x_code) = 6
                        /\ number_of_checks(z_code) = 2) => pairs = 1
                /\ IsToricCode => pairs = 2)

\* from_linear_codes returned the two logical pairs of the toric code of
\* distance 3, having dropped 8 of the 10 candidates of the X pool.
C29_Witness ==
    /\ result.tag = "Ok"
    /\ IsToricCode
    /\ Len(to_generator_vec(z_code)) = 10
    /\ number_of_rows(result.value.logicals.x) = 2
    /\ number_of_rows(result.value.logicals.z) = 2

\* The positions that num_bad_errors stores in the rows of the syndrome
\* matrix for the stabilizers stabs: the indices of the stabilizer
\* generators that an error on a qubit of the erasure violates.
SyndromePositions(erasure, stabs) ==
    UNION {MatVec(stabs, SparseBinVec(erasure.len, {position})).ones :
              position \in erasure.ones}

\* C30: the positions in the rows of the syndrome matrix of num_bad_errors
\* are smaller than the number of columns it is declared with, the number
\* of qubits, for every code and every erasure, and recovery_probability
\* never panics.
C30_SyndromeMatrixIsWellFormed ==
    qpc = "returned" =>
        /\ \A stabs \in {receiver.code.stabilizers.x, receiver.code.stabilizers.z} :
               \A position \in SyndromePositions(argument, stabs) :
                   position < stabs.number_of_columns
        /\ ~IsPanic(returned)

\* recovery_probability panicked: the qubit 0 of a code of one qubit with
\* the X stabilizer generators {0} and {0} is erased, and the position 1 of
\* the second generator is stored in a matrix of one column.
C30_Witness ==
    /\ qpc = "returned"
    /\ receiver.code.stabilizers.x = SparseBinMat(1, <<{0}, {0}>>)
    /\ argument = SparseBinVec(1, {0})
    /\ 1 \in SyndromePositions(argument, receiver.code.stabilizers.x)
    /\ IsPanic(returned)

-----------------------------------------------------------------------------
(* BpDecoder::decode on the Hamming code.                                  *)

\* C21 as stated: with probability 0.1 and at most 10 iterations, decode
\* returns the Hamming codeword c when given c with one bit flipped,
\* whatever the codeword and the bit.
C21_BpRecoversCodeword ==
    (bpc = "decoded" /\ code = hamming_code) =>
        \A p \in 0..6 : SingleError(p) => output.ones = SymDiff(message.ones, {p})

\* The bits in which the output of decode differs from the message when bit
\* p of a Hamming codeword was flipped.
HammingBpFlips(p) == IF p = 6 THEN {2, 4, 5, 6} ELSE {p}

\* The iterations decode takes when bit p of a Hamming codeword was flipped.
HammingBpIterations(p) == IF p \in {0, 1, 3} THEN 2 ELSE 1

\* C21 amended: with probability 0.1 and at most 10 iterations, decode
\* returns the Hamming codeword c when given c with one of the bits 0 to 5
\* flipped, after two iterations for the bits 0, 1 and 3 and after one for
\* the bits 2, 4 and 5.  Given c with bit 6 flipped it stops after one
\* iteration and returns the codeword c + {2, 4, 5}.
C21_BpRecoversCodewordButBitSix ==
    (bpc = "decoded" /\ code = hamming_code) =>
        \A p \in 0..6 : SingleError(p) =>
            /\ output.ones = SymDiff(message.ones, HammingBpFlips(p))
            /\ has_codeword(code, output)
            /\ state.num_iterations = HammingBpIterations(p)

\* The test flipping_first_bit_for_hamming_code: the codeword {0, 1, 2} with
\* bit 0 flipped is decoded to {0, 1, 2} in two iterations.
C21_Witness ==
    /\ bpc = "decoded"
    /\ code = hamming_code
    /\ message.ones = {1, 2}
    /\ output.ones = {0, 1, 2}
    /\ state.num_iterations = 2

\* The codeword {0, 1, 2} with bit 6 flipped is decoded to the codeword
\* {0, 1, 4, 5}.
C21_BitSixWitness ==
    /\ bpc = "decoded"
    /\ code = hamming_code
    /\ message.ones = {0, 1, 2, 6}
    /\ output.ones = {0, 1, 4, 5}

====
